---- MODULE Spec2Model ----
(***************************************************************************)
(* A model of the tree + lockfile subsystem of lux (lumen-oss/lux): the    *)
(* operations Build/Install, Remove (Uninstall), Pin, Sync and Update over *)
(* one install tree, its lockfile, the project lockfile and the remote     *)
(* package DB.  Every operation is modelled step by step, one action per   *)
(* filesystem or lockfile effect of its code, so that intermediate states  *)
(* and failures of single steps are visible.                               *)
(***************************************************************************)
EXTENDS Integers, FiniteSets, Sequences, TLC

(* ------------------------------ bounds -------------------------------- *)
\* highest package version that the package DB can come to offer
MaxVer == 2
\* number of top-level operations started in one behaviour
MaxOps == 2
\* number of package ids one Remove request names
MaxIds == 2
\* number of remotes a package DB is made of
MaxSrc == 2
\* number of extra servers, and of dev servers, of a configuration
MaxServers == 1
\* number of rocks in a lockfile that backs a package DB
MaxLocked == 2
\* highest value of config.max_jobs
MaxJobs == 2
\* number of packages one vendoring or removing operation works on
MaxTasks == 3
\* latest modification time of a manifest or of its cache file
MaxTime == 2
\* length of a file name
MaxLen == 2
\* number of entries of the directory an archive was unpacked into
MaxEntries == 2

Names == {"a", "b"}
Versions == 1..MaxVer
Items == {"etc", "src"}
Hashes == {"A", "B"}
LockTypes == {"regular", "test", "build"}
Procs == {1, 2}

(* --------------------------- data model -------------------------------- *)
\* LocalPackageId: the hash of (name, version, constraint, pinned, source);
\* the model keeps the hashed tuple itself (the source is fixed per name).
Ids == [name : Names, version : Versions, pinned : BOOLEAN, c : {"any", "exact"}]

MkId(n, v, p, c) == [name |-> n, version |-> v, pinned |-> p, c |-> c]

\* PackageReq: a name and a version requirement; ver = 0 is the empty
\* requirement (any version), ver = v is `== v`.
Reqs == [name : Names, ver : 0..MaxVer]

ReqMatches(req, n, v) == req.name = n /\ (req.ver = 0 \/ req.ver = v)

\* LockConstraint::from(version_req)
ConstraintOf(req) == IF req.ver = 0 THEN "any" ELSE "exact"

\* rockspec-level facts of a package, fixed per name: "a" is built by the
\* rust-mlua backend and installs the binary "a"; "b" has no build backend
\* (run_build's None arm) and no binary.
BackendOf(n) == IF n = "a" THEN "rust_mlua" ELSE "none"
BinariesOf(n) == IF n = "a" THEN {"a"} ELSE {}
\* the hash of the source bytes that upstream serves for a package
ServedHash(n) == IF n = "b" THEN "B" ELSE "A"

EmptyLock == [rocks |-> {}, entrypoints |-> {}, srcB |-> {}]

\* Lockfile::get
LfGet(lf, id) == id \in lf.rocks
\* Lockfile::add (h is the source hash recorded in LocalPackage.hashes)
LfAdd(lf, id, h) ==
    [rocks |-> lf.rocks \cup {id},
     entrypoints |-> lf.entrypoints,
     srcB |-> IF h = "B" THEN lf.srcB \cup {id} ELSE lf.srcB \ {id}]
\* Lockfile::add_entrypoint
LfAddEntrypoint(lf, id, h) ==
    [rocks |-> lf.rocks \cup {id},
     entrypoints |-> lf.entrypoints \cup {id},
     srcB |-> IF h = "B" THEN lf.srcB \cup {id} ELSE lf.srcB \ {id}]
\* Lockfile::remove_by_id / Lockfile::remove
LfRemoveById(lf, id) ==
    [rocks |-> lf.rocks \ {id},
     entrypoints |-> lf.entrypoints \ {id},
     srcB |-> lf.srcB \ {id}]
\* Lockfile::is_entrypoint
LfIsEntrypoint(lf, id) == id \in lf.entrypoints
\* Lockfile::sync: replace the lock by the given one
LfSync(lf, other) == other
\* the source hash a lockfile records for a rock
LfHash(lf, id) == IF id \in lf.srcB THEN "B" ELSE "A"

RECURSIVE LfRemoveAll(_, _)
LfRemoveAll(lf, ids) ==
    IF ids = {} THEN lf
    ELSE LET i == CHOOSE x \in ids : TRUE
         IN  LfRemoveAll(LfRemoveById(lf, i), ids \ {i})

(* ------------------------------ state ---------------------------------- *)
VARIABLES
    lock,     \* the tree's lockfile, as it is on disk
    roots,    \* ids whose package root directory exists in the tree
    files,    \* <<id, item>>: the item directory exists under the id's root
    bins,     \* file names present in the tree's shared bin/ directory
    plock,    \* the project lockfile: one sub-lock per lock type
    db,       \* remote package DB: latest version offered per name
    dflt,     \* ids installed in the configured default tree, when that is
              \* another tree than the one the operations are given
    flock,    \* holder of the lockfile's advisory file lock (0: free)
    pc,       \* per process: the step it is at
    loc,      \* per process: the locals of the running operation
    res,      \* per process: the result of its last completed operation
    nops,     \* operations started so far
    srcs,     \* the remotes of a package DB, in the order it consults them
    found,    \* what the last find on that package DB returned
    cfg,      \* the servers of the configuration the package DB is built from
    jobs,     \* the per-package tasks of one operation and config.max_jobs
    mf,       \* a manifest server, its cache file and the loading of it
    vend,     \* the packages of a vendoring run and the vendor directory
    unp,      \* an unpacked source archive and the build directory chosen
    rps       \* two remote package sources and how they compare

vars == <<lock, roots, files, bins, plock, db, dflt, flock, pc, loc, res, nops,
          srcs, found, cfg, jobs, mf, vend, unp, rps>>

\* the package DB that find is studied on, the task pool of an operation
\* and the manifest cache, apart from the tree
findvars == <<srcs, found, cfg, jobs, mf, vend, unp, rps>>

NoId == [name |-> "-", version |-> 0, pinned |-> FALSE, c |-> "any"]
NoReq == [name |-> "-", ver |-> 0]
NoSpec == [req |-> NoReq, entry |-> FALSE, pin |-> FALSE, force |-> FALSE,
           c |-> "any"]

NoPre == [lock |-> EmptyLock, roots |-> {}, files |-> {}, bins |-> {}]

NoLoc ==
    [op |-> "-", ret |-> "-", rret |-> "-", proj |-> FALSE,
     queue |-> {}, cur |-> NoSpec, usedb |-> "remote", record |-> TRUE,
     id |-> NoId, hash |-> "A", installed |-> {}, failed |-> FALSE,
     failat |-> "-", names |-> {},
     ids |-> {}, todo |-> {}, snap |-> EmptyLock, rsnap |-> EmptyLock,
     newid |-> NoId, items |-> {},
     ltype |-> "regular", reqs |-> {}, toadd |-> {}, removed |-> {},
     validate |-> FALSE, same |-> TRUE, pre |-> NoPre, nolock |-> FALSE,
     bdeps |-> {}, btree |-> {}]

\* what an operation returned: pre is the tree as a failed Sync found it
NoRes == [op |-> "-", ok |-> TRUE, err |-> "-", ltype |-> "regular",
          id |-> NoId, newid |-> NoId, ids |-> {}, reqs |-> {},
          names |-> {}, pre |-> NoPre]

\* a configuration before any server is named
NoCfg == [extra |-> <<>>, dev |-> <<>>, dflt |-> [n \in {"a", "b"} |-> 0]]

\* no manifest is being loaded
NoMf ==
    [pc |-> "-", cache |-> "none", had |-> FALSE, mt0 |-> 0,
     zip |-> "ok", plain |-> "ok", lm |-> 0, answers |-> TRUE,
     oldok |-> TRUE, newok |-> TRUE, log |-> <<>>, c |-> "-", c1 |-> "-",
     bypass |-> FALSE, ret |-> "-", err |-> "-", seen |-> "-"]

\* no vendoring run
NoVend == [pkgs |-> {}, dir |-> {}, ok |-> {}, err |-> {}, ret |-> "-"]

\* no archive has been unpacked
NoUnp == [ents |-> {}, archive |-> <<"None">>, unpack_dir |-> <<"None">>,
          out |-> <<>>, done |-> FALSE]

\* no sources are compared
NoRps == [a |-> <<"-", "-">>, b |-> <<"-", "-">>, eq |-> FALSE, same |-> FALSE,
          done |-> FALSE]

\* no operation with per-package tasks
NoJobs == [op |-> "-", cap |-> 1, st |-> <<>>]

\* no find has been made
NoFound == [req |-> NoReq, src |-> 0, ver |-> 0, asked |-> 0]

Pre == [lock |-> lock, roots |-> roots, files |-> files, bins |-> bins]

Idle(p) == pc[p] = "idle"

\* the layout of a package: its root with every item directory
LayoutFiles(id) == {<<id, it>> : it \in Items}
FilesOf(fs, id) == {f \in fs : f[1] = id}

\* RemotePackageDB::find against the remote servers: the latest version
\* the DB offers that matches the requirement; 0 when there is none
FindRemote(d, req) ==
    IF req.ver = 0 THEN d[req.name]
    ELSE IF req.ver <= d[req.name] THEN req.ver ELSE 0

\* RemotePackageDB::find against a lockfile (LocalPackageLock::has_rock):
\* the highest locked version that matches; 0 when there is none
FindLock(lk, req) ==
    LET vs == {i.version : i \in {j \in lk.rocks :
                                    ReqMatches(req, j.name, j.version)}}
    IN  IF vs = {} THEN 0 ELSE CHOOSE v \in vs : \A w \in vs : w <= v

Find(usedb, lk, d, req) ==
    IF usedb = "lock" THEN FindLock(lk, req) ELSE FindRemote(d, req)

Goto(p, l) == pc' = [pc EXCEPT ![p] = l]
SetLoc(p, r) == loc' = [loc EXCEPT ![p] = r]

\* an operation starts: the result of the one before is gone
Begin(p, l, r) ==
    /\ pc' = [pc EXCEPT ![p] = l]
    /\ loc' = [loc EXCEPT ![p] = r]
    /\ res' = [res EXCEPT ![p] = NoRes]
    /\ nops' = nops + 1

\* the running operation returns to the user
Finish(p, r) ==
    /\ pc' = [pc EXCEPT ![p] = "idle"]
    /\ loc' = [loc EXCEPT ![p] = NoLoc]
    /\ res' = [res EXCEPT ![p] = r]

\* the project lockfile the tree is first used with: an empty one, or one
\* that locks b 1 as an entrypoint with a source hash that is not the one
\* upstream serves
InitProjectLocks ==
    {[t \in LockTypes |-> EmptyLock],
     [t \in LockTypes |->
        IF t = "regular"
        THEN LfAddEntrypoint(EmptyLock, MkId("b", 1, FALSE, "any"), "A")
        ELSE EmptyLock]}

Init ==
    /\ lock = EmptyLock
    /\ roots = {}
    /\ files = {}
    /\ bins = {}
    /\ plock \in InitProjectLocks
    /\ db = [n \in Names |-> 1]
    /\ dflt = {MkId(n, 1, FALSE, "any") : n \in Names}
    /\ flock = 0
    /\ pc = [p \in Procs |-> "idle"]
    /\ loc = [p \in Procs |-> NoLoc]
    /\ res = [p \in Procs |-> NoRes]
    /\ nops = 0
    /\ vend = NoVend
    /\ unp = NoUnp
    /\ rps = NoRps
    /\ srcs = <<>>
    /\ found = NoFound
    /\ cfg = NoCfg
    /\ jobs = NoJobs
    /\ mf = NoMf

\* a new version of a package is published on the remote server
Publish(n) ==
    /\ db[n] < MaxVer
    /\ db' = [db EXCEPT ![n] = @ + 1]
    /\ UNCHANGED <<lock, roots, files, bins, plock, dflt, flock, pc, loc, res, nops>>
    /\ UNCHANGED findvars

(* ------------------- Install and Build (do_build) ---------------------- *)
\* Tree::match_rocks(req).is_found(): some rock of the tree's lockfile
\* matches the requirement
MatchRocksFound(lf, req) ==
    \E i \in lf.rocks : ReqMatches(req, i.name, i.version)

MkSpec(req, entry, pin, force, c) ==
    [req |-> req, entry |-> entry, pin |-> pin, force |-> force, c |-> c]

\* Install::install, entered with loc.queue and loc.usedb set: resolve every
\* requested package; an unresolvable one fails the install before anything
\* is fetched or built.  Packages the tree already satisfies are skipped
\* unless forced.  The install holds the lockfile's write guard until it
\* returns.
InstBegin(p) ==
    /\ pc[p] = "inst_begin"
    /\ flock = 0
    /\ LET l == loc[p]
           dblock == plock[l.ltype]
           todo == {s \in l.queue : s.force \/ ~MatchRocksFound(lock, s.req)}
       IN  IF \E s \in todo : Find(l.usedb, dblock, db, s.req) = 0
           THEN /\ SetLoc(p, [l EXCEPT !.queue = {}, !.failed = TRUE,
                                       !.installed = {}])
                /\ Goto(p, l.ret)
                /\ UNCHANGED flock
           ELSE /\ SetLoc(p, [l EXCEPT !.queue = todo, !.failed = FALSE,
                                       !.installed = {}])
                /\ Goto(p, "inst_next")
                /\ flock' = p
    /\ UNCHANGED <<lock, roots, files, bins, plock, db, dflt, res, nops>>
    /\ UNCHANGED findvars

\* Install: take the next package of the plan and build it; with the plan
\* exhausted, flush and release the write guard and return
InstNext(p) ==
    /\ pc[p] = "inst_next"
    /\ LET l == loc[p] IN
       IF l.queue = {}
       THEN /\ Goto(p, l.ret)
            /\ SetLoc(p, [l EXCEPT !.cur = NoSpec, !.id = NoId, !.hash = "A"])
            /\ flock' = 0
       ELSE \E s \in l.queue :
              LET v == Find(l.usedb, plock[l.ltype], db, s.req) IN
              /\ SetLoc(p, [l EXCEPT !.queue = @ \ {s}, !.cur = s,
                                     !.id = MkId(s.req.name, v, s.pin, s.c)])
              /\ Goto(p, "build_fetch")
              /\ UNCHANGED flock
    /\ UNCHANGED <<lock, roots, files, bins, plock, db, dflt, res, nops>>
    /\ UNCHANGED findvars

\* a build that never takes the package the lockfile records
ReturnsExistingNever(lf, id, force) == FALSE

\* do_build, lines 367-368: with NoForce, a package whose id the tree's
\* lockfile records is returned as it is
ReturnsExisting(lf, id, force) == LfGet(lf, id) /\ ~force

\* do_build, lines 319-368: fetch the source into a temporary directory and
\* hash it, compute the LocalPackage and its id; with NoForce an id already
\* in the tree's lockfile is returned as it is
BuildFetch(p) ==
    /\ pc[p] = "build_fetch"
    /\ LET l == loc[p] IN
       \/ \* the fetch fails
          /\ Goto(p, "build_failed")
          /\ SetLoc(p, [l EXCEPT !.failat = "fetch"])
       \/ IF ReturnsExisting(lock, l.id, l.cur.force)
          THEN /\ SetLoc(p, [l EXCEPT !.installed = @ \cup {l.id}])
               /\ Goto(p, IF l.record THEN "inst_next" ELSE l.ret)
          ELSE /\ SetLoc(p, [l EXCEPT !.hash = ServedHash(l.id.name)])
               /\ Goto(p, "build_layout")
    /\ UNCHANGED <<lock, roots, files, bins, plock, db, dflt, flock, res, nops>>
    /\ UNCHANGED findvars

\* do_build, lines 370-373: tree.entrypoint / tree.dependency create the
\* package's RockLayout in the tree
BuildLayout(p) ==
    /\ pc[p] = "build_layout"
    /\ LET l == loc[p] IN
       \/ /\ roots' = roots \cup {l.id}
          /\ files' = files \cup LayoutFiles(l.id)
          /\ Goto(p, IF BackendOf(l.id.name) = "rust_mlua"
                     THEN "backend_rust" ELSE "backend_none")
          /\ UNCHANGED loc
       \/ /\ Goto(p, "build_failed")
          /\ SetLoc(p, [l EXCEPT !.failat = "layout"])
          /\ UNCHANGED <<roots, files>>
    /\ UNCHANGED <<lock, bins, plock, db, dflt, flock, res, nops>>
    /\ UNCHANGED findvars

\* rust_mlua::cleanup: remove the layout root; a failure to remove it is
\* printed and ignored
Cleanup(rs, fs, id, removed) ==
    IF removed THEN <<rs \ {id}, fs \ FilesOf(fs, id)>> ELSE <<rs, fs>>

\* RustMluaBuildSpec::run: cargo build, then install_rust_libs and
\* install_lua_libs, each of the two followed by cleanup when it fails
BackendRustMlua(p) ==
    /\ pc[p] = "backend_rust"
    /\ LET l == loc[p] IN
       \/ \* cargo cannot be run or exits non-zero (lines 64-71), or
          \* create_dir_all of lib/ or src/ fails (lines 73, 80)
          /\ Goto(p, "build_failed")
          /\ SetLoc(p, [l EXCEPT !.failat = "backend"])
          /\ UNCHANGED <<roots, files>>
       \/ \* install_rust_libs or install_lua_libs fails (lines 74-84)
          \E removed \in BOOLEAN :
            /\ roots' = Cleanup(roots, files, l.id, removed)[1]
            /\ files' = Cleanup(roots, files, l.id, removed)[2]
            /\ Goto(p, "build_failed")
            /\ SetLoc(p, [l EXCEPT !.failat = "backend"])
       \/ /\ Goto(p, "build_install")
          /\ UNCHANGED <<roots, files, loc>>
    /\ UNCHANGED <<lock, bins, plock, db, dflt, flock, res, nops>>
    /\ UNCHANGED findvars

\* run_build with no build backend (line 211): nothing to run
BackendNone(p) ==
    /\ pc[p] = "backend_none"
    /\ Goto(p, "build_install")
    /\ UNCHANGED <<lock, roots, files, bins, plock, db, dflt, flock, loc, res, nops>>
    /\ UNCHANGED findvars

\* an install step that deploys binaries whatever the entry type
InstalledBinariesAlways(entry, n) == BinariesOf(n)

\* the binaries the install step writes to the shared bin/ directory
InstalledBinaries(entry, n) == IF entry THEN BinariesOf(n) ELSE {}

\* install (lines 217-299) and the rest of do_build (lines 458-481): copy
\* modules, libraries, binaries (entrypoints only), configuration, the
\* copy_directories and the docs, write the rockspec; any failing copy
\* returns the error
BuildInstall(p) ==
    /\ pc[p] = "build_install"
    /\ LET l == loc[p]
           b == InstalledBinaries(l.cur.entry, l.id.name)
       IN
       \/ \* a copy before the binaries fails
          /\ Goto(p, "build_failed")
          /\ SetLoc(p, [l EXCEPT !.failat = "install"])
          /\ UNCHANGED bins
       \/ \* a copy after the binaries fails
          /\ b # {}
          /\ bins' = bins \cup b
          /\ Goto(p, "build_failed")
          /\ SetLoc(p, [l EXCEPT !.failat = "install"])
       \/ /\ bins' = bins \cup b
          /\ Goto(p, IF l.record THEN "inst_record" ELSE "build_done")
          /\ UNCHANGED loc
    /\ UNCHANGED <<lock, roots, files, plock, db, dflt, flock, res, nops>>
    /\ UNCHANGED findvars

\* Install: the failed package is cleaned up and the install carries on
\* with the rest of the plan; a bare Build returns the error to its caller
BuildFailed(p) ==
    /\ pc[p] = "build_failed"
    /\ LET l == loc[p] IN
       IF l.record
       THEN /\ roots' = roots \ {l.id}
            /\ files' = files \ FilesOf(files, l.id)
            /\ SetLoc(p, [l EXCEPT !.failed = TRUE, !.failat = "-"])
            /\ Goto(p, "inst_next")
       ELSE /\ SetLoc(p, [l EXCEPT !.failed = TRUE, !.failat = "-"])
            /\ Goto(p, l.ret)
            /\ UNCHANGED <<roots, files>>
    /\ UNCHANGED <<lock, bins, plock, db, dflt, flock, res, nops>>
    /\ UNCHANGED findvars

\* Install: record the built package in the tree's lockfile
InstRecord(p) ==
    /\ pc[p] = "inst_record"
    /\ LET l == loc[p] IN
       /\ lock' = IF l.cur.entry THEN LfAddEntrypoint(lock, l.id, l.hash)
                                 ELSE LfAdd(lock, l.id, l.hash)
       /\ SetLoc(p, [l EXCEPT !.installed = @ \cup {l.id}])
       /\ Goto(p, "inst_next")
    /\ UNCHANGED <<roots, files, bins, plock, db, dflt, flock, res, nops>>
    /\ UNCHANGED findvars

\* a bare Build returns the package to its caller, which drops it
BuildDone(p) ==
    /\ pc[p] = "build_done"
    /\ SetLoc(p, [loc[p] EXCEPT !.installed = @ \cup {loc[p].id}])
    /\ Goto(p, loc[p].ret)
    /\ UNCHANGED <<lock, roots, files, bins, plock, db, dflt, flock, res, nops>>
    /\ UNCHANGED findvars

\* lx install <req>: Install one package into the tree from the remote DB
StartInstall(p) ==
    /\ Idle(p) /\ nops < MaxOps
    /\ \E n \in Names, ver \in 0..MaxVer, entry \in BOOLEAN, pin \in BOOLEAN :
         LET req == [name |-> n, ver |-> ver] IN
         Begin(p, "inst_begin",
               [NoLoc EXCEPT !.op = "install", !.ret = "op_done",
                  !.queue = {MkSpec(req, entry, pin, FALSE, ConstraintOf(req))},
                  !.usedb = "remote"])
    /\ UNCHANGED <<lock, roots, files, bins, plock, db, dflt, flock>>
    /\ UNCHANGED findvars

\* lx install-rockspec <file>: the rockspec's package is built into the
\* tree as an entrypoint with Force; the built package is not recorded
StartBuild(p) ==
    /\ Idle(p) /\ nops < MaxOps
    /\ \E n \in Names, pin \in BOOLEAN :
         LET req == [name |-> n, ver |-> db[n]] IN
         Begin(p, "build_fetch",
               [NoLoc EXCEPT !.op = "build", !.ret = "op_done",
                  !.cur = MkSpec(req, TRUE, pin, TRUE, "any"),
                  !.id = MkId(n, db[n], pin, "any"),
                  !.record = FALSE])
    /\ UNCHANGED <<lock, roots, files, bins, plock, db, dflt, flock>>
    /\ UNCHANGED findvars

\* lx test, test.rs lines 225-250: a test dependency the tree already holds
\* is installed again as an entrypoint with Force, pinned as the rockspec
\* says
StartInstallForce(p) ==
    /\ Idle(p) /\ nops < MaxOps
    /\ \E n \in Names, ver \in 0..MaxVer, pin \in BOOLEAN :
         LET req == [name |-> n, ver |-> ver] IN
         /\ MatchRocksFound(lock, req)
         /\ Begin(p, "inst_begin",
                  [NoLoc EXCEPT !.op = "install", !.ret = "op_done",
                     !.queue = {MkSpec(req, TRUE, pin, TRUE, ConstraintOf(req))},
                     !.usedb = "remote"])
    /\ UNCHANGED <<lock, roots, files, bins, plock, db, dflt, flock>>
    /\ UNCHANGED findvars

\* Build::new(..).build() with the builder's default behaviour, NoForce: the
\* package is built into the tree unless its id is recorded already
StartBuildNoForce(p) ==
    /\ Idle(p) /\ nops < MaxOps
    /\ \E n \in Names, pin \in BOOLEAN :
         LET req == [name |-> n, ver |-> db[n]] IN
         Begin(p, "build_fetch",
               [NoLoc EXCEPT !.op = "build", !.ret = "op_done",
                  !.cur = MkSpec(req, TRUE, pin, FALSE, "any"),
                  !.id = MkId(n, db[n], pin, "any"),
                  !.record = FALSE])
    /\ UNCHANGED <<lock, roots, files, bins, plock, db, dflt, flock>>
    /\ UNCHANGED findvars

\* a sync that overwrites every sub-lock of the project lockfile
ProjectSyncAll(pl, t, lk) == [x \in LockTypes |-> lk]

\* project_lockfile.sync(lock, lock_type): the sub-lock of the lock type is
\* replaced, the other sub-locks are kept
ProjectSync(pl, t, lk) == [pl EXCEPT ![t] = lk]

\* Install, Build and Remove return to the user; so does update, and
\* update_dependency_tree (lines 222-225) then syncs the project sub-lock
\* with the tree's lockfile when something was updated
OpDone(p) ==
    /\ pc[p] = "op_done"
    /\ LET l == loc[p] IN
       /\ Finish(p, [NoRes EXCEPT !.op = l.op, !.ok = ~l.failed,
                         !.ids = IF l.op = "remove" THEN l.ids ELSE l.installed,
                         !.names = l.names])
       /\ plock' = IF l.op = "update" /\ l.proj /\ ~l.failed /\ l.installed # {}
                   THEN ProjectSync(plock, l.ltype,
                                    LfSync(plock[l.ltype], lock))
                   ELSE plock
    /\ UNCHANGED <<lock, roots, files, bins, db, dflt, flock, nops>>
    /\ UNCHANGED findvars

(* ------------------------ Remove (Uninstall) --------------------------- *)
\* an id that is installed nowhere unless a behaviour installs it; lets a
\* request name a package the lockfile does not record
GhostId == MkId("b", 1, TRUE, "exact")

\* the ids a user request may name
RequestIds == {s \in SUBSET (lock.rocks \cup {GhostId}) :
                 Cardinality(s) >= 1 /\ Cardinality(s) <= MaxIds}

\* a remove that runs a task for every requested id, recorded or not
RemoveTargetsAll(lf, ids) == ids

\* uninstall.rs remove, lines 82-88: read the tree's lockfile and keep the
\* requested packages it records
RemoveTargets(lf, ids) == {i \in ids : LfGet(lf, i)}

\* a remove that drops the rocks and forgets the entrypoint set
RemoveFlushKeepsEntrypoints(snap, ids) == [snap EXCEPT !.rocks = @ \ ids]

\* uninstall.rs / remove.rs remove, lines 100-106: drop every requested id
\* from the lockfile that was read at the start, and write it out
RemoveFlush(snap, ids) == LfRemoveAll(snap, ids)

\* lx remove: Uninstall::remove on the given tree
StartUninstall(p) ==
    /\ Idle(p) /\ nops < MaxOps
    /\ \E ids \in RequestIds :
         Begin(p, "un_pick",
               [NoLoc EXCEPT !.op = "remove", !.ret = "op_done",
                  !.ids = ids, !.rsnap = lock,
                  !.todo = RemoveTargets(lock, ids)])
    /\ UNCHANGED <<lock, roots, files, bins, plock, db, dflt, flock>>
    /\ UNCHANGED findvars

\* lx remove, run once more with the ids of the remove that just returned
StartUninstallAgain(p) ==
    /\ Idle(p) /\ nops < MaxOps
    /\ res[p].op = "remove"
    /\ Begin(p, "un_pick",
             [NoLoc EXCEPT !.op = "remove", !.ret = "op_done",
                !.ids = res[p].ids, !.rsnap = lock,
                !.todo = RemoveTargets(lock, res[p].ids)])
    /\ UNCHANGED <<lock, roots, files, bins, plock, db, dflt, flock>>
    /\ UNCHANGED findvars

\* uninstall.rs remove, lines 90-98: one remove_package task per package;
\* the tasks' results are collected and dropped
UnPick(p) ==
    /\ pc[p] = "un_pick"
    /\ LET l == loc[p] IN
       IF l.todo = {}
       THEN /\ Goto(p, "un_flush")
            /\ SetLoc(p, [l EXCEPT !.id = NoId])
       ELSE \E i \in l.todo :
              /\ SetLoc(p, [l EXCEPT !.todo = @ \ {i}, !.id = i])
              /\ Goto(p, "un_etc")
    /\ UNCHANGED <<lock, roots, files, bins, plock, db, dflt, flock, res, nops>>
    /\ UNCHANGED findvars

\* remove_package, lines 124-125: installed_rock_layout, then
\* remove_dir_all(etc); an error ends the task
UnEtc(p) ==
    /\ pc[p] = "un_etc"
    /\ LET l == loc[p] IN
       \/ /\ l.id \in roots /\ <<l.id, "etc">> \in files
          /\ files' = files \ {<<l.id, "etc">>}
          /\ Goto(p, "un_root")
       \/ /\ Goto(p, "un_pick")
          /\ UNCHANGED files
    /\ UNCHANGED <<lock, roots, bins, plock, db, dflt, flock, loc, res, nops>>
    /\ UNCHANGED findvars

\* remove_package, line 126: remove_dir_all(rock_path)
UnRoot(p) ==
    /\ pc[p] = "un_root"
    /\ LET l == loc[p] IN
       \/ /\ l.id \in roots
          /\ roots' = roots \ {l.id}
          /\ files' = files \ FilesOf(files, l.id)
          /\ Goto(p, "un_bins")
       \/ /\ Goto(p, "un_pick")
          /\ UNCHANGED <<roots, files>>
    /\ UNCHANGED <<lock, bins, plock, db, dflt, flock, loc, res, nops>>
    /\ UNCHANGED findvars

\* remove_package, lines 129-141: delete the files in bin/ that carry the
\* file names of the package's binaries
UnBins(p) ==
    /\ pc[p] = "un_bins"
    /\ LET l == loc[p] IN
       \/ bins' = bins \ BinariesOf(l.id.name)
       \/ /\ BinariesOf(l.id.name) \cap bins # {}
          /\ UNCHANGED bins
    /\ Goto(p, "un_pick")
    /\ UNCHANGED <<lock, roots, files, plock, db, dflt, flock, loc, res, nops>>
    /\ UNCHANGED findvars

\* remove, lines 100-108: map_then_flush under the write guard; a failed
\* flush is the only error remove returns
UnFlush(p) ==
    /\ pc[p] = "un_flush"
    /\ flock = 0
    /\ LET l == loc[p] IN
       \/ /\ lock' = RemoveFlush(l.rsnap, l.ids)
          /\ UNCHANGED loc
       \/ /\ SetLoc(p, [l EXCEPT !.failed = TRUE])
          /\ UNCHANGED lock
    /\ Goto(p, loc[p].ret)
    /\ UNCHANGED <<roots, files, bins, plock, db, dflt, flock, res, nops>>
    /\ UNCHANGED findvars

(* -------- Remove::new(config), as Sync and Update call it -------------- *)
\* remove.rs Remove::remove, lines 63-70, and remove, lines 79-85: the tree
\* is the configured default tree, whatever tree the caller works on
RmBegin(p) ==
    /\ pc[p] = "rm_begin"
    /\ LET l == loc[p] IN
       IF l.same
       THEN /\ SetLoc(p, [l EXCEPT !.rsnap = lock,
                                   !.todo = RemoveTargets(lock, l.ids)])
            /\ Goto(p, "rm_pick")
            /\ UNCHANGED dflt
       ELSE /\ dflt' = dflt \ l.ids
            /\ Goto(p, l.rret)
            /\ UNCHANGED loc
    /\ UNCHANGED <<lock, roots, files, bins, plock, db, flock, res, nops>>
    /\ UNCHANGED findvars

\* remove.rs remove, lines 87-93, and remove_package, line 119:
\* remove_dir_all(root_for(package)) per package, results dropped
RmPick(p) ==
    /\ pc[p] = "rm_pick"
    /\ LET l == loc[p] IN
       IF l.todo = {}
       THEN /\ Goto(p, "rm_flush")
            /\ UNCHANGED <<loc, roots, files>>
       ELSE \E i \in l.todo :
              /\ SetLoc(p, [l EXCEPT !.todo = @ \ {i}])
              /\ UNCHANGED pc
              /\ \/ /\ i \in roots
                    /\ roots' = roots \ {i}
                    /\ files' = files \ FilesOf(files, i)
                 \/ UNCHANGED <<roots, files>>
    /\ UNCHANGED <<lock, bins, plock, db, dflt, flock, res, nops>>
    /\ UNCHANGED findvars

\* remove.rs remove, lines 95-103
RmFlush(p) ==
    /\ pc[p] = "rm_flush"
    /\ flock = 0
    /\ LET l == loc[p] IN
       \/ /\ lock' = RemoveFlush(l.rsnap, l.ids)
          /\ Goto(p, l.rret)
       \/ /\ Goto(p, "sub_failed")
          /\ UNCHANGED lock
    /\ UNCHANGED <<roots, files, bins, plock, db, dflt, flock, loc, res, nops>>
    /\ UNCHANGED findvars

(* ------------------------------- Pin ----------------------------------- *)
PinnedId(id, pin) == [id EXCEPT !.pinned = pin]

\* a pin that does not look for the new id in the lockfile
PinCheckNoConflict(lf, rs, id, pin) ==
    IF ~LfGet(lf, id) THEN "PackageNotFound"
    ELSE IF ~LfIsEntrypoint(lf, id) THEN "NotAnEntrypoint"
    ELSE IF pin = id.pinned THEN "PinStateUnchanged"
    ELSE IF id \notin rs THEN "ReadDir"
    ELSE "ok"

\* set_pinned_state, lines 48-82: the checks made before anything is
\* changed; "ok" when the pin state can be changed
PinCheck(lf, rs, id, pin) ==
    IF ~LfGet(lf, id) THEN "PackageNotFound"
    ELSE IF ~LfIsEntrypoint(lf, id) THEN "NotAnEntrypoint"
    ELSE IF pin = id.pinned THEN "PinStateUnchanged"
    ELSE IF id \notin rs THEN "ReadDir"
    ELSE IF LfGet(lf, PinnedId(id, pin)) THEN "PinStateConflict"
    ELSE "ok"

\* a pin that records the package anew, without what the lockfile knew of it
PinFlushLockForgets(snap, old, new) ==
    LfAddEntrypoint(LfRemoveById(snap, old), new, "A")

\* set_pinned_state, lines 91-96: the old package leaves the lockfile and
\* the package with the new pin state enters it as an entrypoint
PinFlushLock(snap, old, new) ==
    LfAddEntrypoint(LfRemoveById(snap, old), new, LfHash(snap, old))

\* lx pin / lx unpin: set_pinned_state up to line 84
StartPin(p) ==
    /\ Idle(p) /\ nops < MaxOps
    /\ \E id \in lock.rocks \cup {GhostId}, pin \in BOOLEAN :
         LET chk == PinCheck(lock, roots, id, pin) IN
         IF chk = "ok"
         THEN Begin(p, "pin_mkdir",
                    [NoLoc EXCEPT !.op = "pin", !.id = id, !.snap = lock,
                       !.newid = PinnedId(id, pin),
                       !.items = {f[2] : f \in FilesOf(files, id)}])
         ELSE /\ Finish(p, [NoRes EXCEPT !.op = "pin", !.ok = FALSE,
                              !.err = chk, !.id = id,
                              !.newid = PinnedId(id, pin)])
              /\ nops' = nops + 1
    /\ UNCHANGED <<lock, roots, files, bins, plock, db, dflt, flock>>
    /\ UNCHANGED findvars

PinFail(p, e) ==
    Finish(p, [NoRes EXCEPT !.op = "pin", !.ok = FALSE, !.err = e,
                 !.id = loc[p].id, !.newid = loc[p].newid])

\* set_pinned_state, lines 84-87: create_dir_all(new_root)
PinMkdir(p) ==
    /\ pc[p] = "pin_mkdir"
    /\ \/ /\ roots' = roots \cup {loc[p].newid}
          /\ Goto(p, "pin_move")
          /\ UNCHANGED <<loc, res>>
       \/ /\ PinFail(p, "CreateDir")
          /\ UNCHANGED roots
    /\ UNCHANGED <<lock, files, bins, plock, db, dflt, flock, nops>>
    /\ UNCHANGED findvars

\* set_pinned_state, line 89: fs_extra::move_items moves the entries of the
\* old root into the new root one after the other; an entry that exists in
\* the new root, or any failing move, ends the operation with an error
PinMove(p) ==
    /\ pc[p] = "pin_move"
    /\ LET l == loc[p] IN
       IF l.items = {}
       THEN /\ Goto(p, "pin_flush")
            /\ UNCHANGED <<loc, res, files>>
       ELSE \E it \in l.items :
              \/ /\ <<l.newid, it>> \notin files
                 /\ files' = (files \ {<<l.id, it>>}) \cup {<<l.newid, it>>}
                 /\ SetLoc(p, [l EXCEPT !.items = @ \ {it}])
                 /\ UNCHANGED <<pc, res>>
              \/ /\ PinFail(p, "MoveItemsFailure")
                 /\ UNCHANGED files
    /\ UNCHANGED <<lock, roots, bins, plock, db, dflt, flock, nops>>
    /\ UNCHANGED findvars

\* set_pinned_state, lines 91-98: map_then_flush
PinFlush(p) ==
    /\ pc[p] = "pin_flush"
    /\ flock = 0
    /\ LET l == loc[p] IN
       \/ /\ lock' = PinFlushLock(l.snap, l.id, l.newid)
          /\ Finish(p, [NoRes EXCEPT !.op = "pin", !.ok = TRUE, !.id = l.id,
                          !.newid = l.newid])
       \/ /\ PinFail(p, "FlushLockfile")
          /\ UNCHANGED lock
    /\ UNCHANGED <<roots, files, bins, plock, db, dflt, flock, nops>>
    /\ UNCHANGED findvars

(* ------------------------------- Sync ---------------------------------- *)
\* ProjectLockfile::package_sync_spec: the requirements no locked rock
\* satisfies, and the locked rocks no requirement asks for
SyncToAdd(plk, reqs) ==
    {r \in reqs : ~\E i \in plk.rocks : ReqMatches(r, i.name, i.version)}
SyncToRemove(plk, reqs) ==
    {i \in plk.rocks : ~\E r \in reqs : ReqMatches(r, i.name, i.version)}

\* the requests a Sync may carry: none, or a list of at most one requirement
SyncRequests == {{}} \cup {{[name |-> n, ver |-> 0]} : n \in Names}

\* LocalPackage::into_package_req: the requirement that matches exactly the
\* package's name and version
IntoPackageReq(id) == [name |-> id.name, ver |-> id.version]

\* do_sync, lines 164-175: the install spec of a rock of the project lock
SyncInstallSpec(plk, id) ==
    MkSpec(IntoPackageReq(id), LfIsEntrypoint(plk, id), id.pinned, TRUE, id.c)

\* a sync that installs every rock of the project sub-lock again
SyncAddedAll(plk, dest) == plk.rocks

\* do_sync, lines 145-157: rocks of the project sub-lock missing in the tree
SyncAdded(plk, dest) == {i \in plk.rocks : ~LfGet(dest, i)}
\* do_sync, lines 158-162: rocks of the tree missing in the project sub-lock
SyncRemoved(plk, dest) == {i \in dest.rocks : ~LfGet(plk, i)}

\* Lockfile::validate_integrity: the hashes the tree's lockfile records for
\* the package are those of the package handed in
ValidateIntegrity(dest, plk, id) == LfHash(dest, id) = LfHash(plk, id)

SyncFail(p, e) ==
    Finish(p, [NoRes EXCEPT !.op = "sync", !.ok = FALSE, !.err = e,
                 !.ltype = loc[p].ltype, !.pre = loc[p].pre])

\* do_sync, lines 125-190: read the tree's lockfile, take the rocks nobody
\* asks for out of the project sub-lock, compute what to add and to remove,
\* and install what is to add from the project sub-lock as package DB
StartSync(p) ==
    /\ Idle(p) /\ nops < MaxOps
    /\ \E t \in LockTypes, given \in BOOLEAN, reqs \in SyncRequests,
          validate \in BOOLEAN, same \in BOOLEAN :
         /\ given \/ reqs = {}
         /\ LET torm == IF given THEN SyncToRemove(plock[t], reqs) ELSE {}
                toaddreq == IF given THEN SyncToAdd(plock[t], reqs) ELSE {}
                plk == LfRemoveAll(plock[t], torm)
                added == SyncAdded(plk, lock)
            IN  /\ plock' = [plock EXCEPT ![t] = plk]
                /\ Begin(p, "inst_begin",
                         [NoLoc EXCEPT !.op = "sync", !.ret = "sync_validate",
                            !.ltype = t, !.reqs = toaddreq,
                            !.validate = validate, !.same = same,
                            !.snap = lock, !.toadd = added,
                            !.removed = SyncRemoved(plk, lock),
                            !.queue = {SyncInstallSpec(plk, i) : i \in added},
                            !.usedb = "lock", !.pre = Pre])
    /\ UNCHANGED <<lock, roots, files, bins, db, dflt, flock>>
    /\ UNCHANGED findvars

\* do_sync, lines 190-214: the install returned; read the tree's lockfile
\* again, validate the integrity of what was added, then remove what the
\* project sub-lock does not have
SyncValidate(p) ==
    /\ pc[p] = "sync_validate"
    /\ LET l == loc[p] IN
       IF l.failed
       THEN SyncFail(p, "Install")
       ELSE IF l.validate /\ \E i \in l.toadd :
                                ~ValidateIntegrity(lock, plock[l.ltype], i)
       THEN SyncFail(p, "Integrity")
       ELSE /\ SetLoc(p, [l EXCEPT !.snap = lock, !.ids = l.removed,
                                   !.rret = "sync_flush"])
            /\ Goto(p, "rm_begin")
            /\ UNCHANGED res
    /\ UNCHANGED <<lock, roots, files, bins, plock, db, dflt, flock, nops>>
    /\ UNCHANGED findvars

\* a Remove or flush inside Sync or Update returned an error
SubFailed(p) ==
    /\ pc[p] = "sub_failed"
    /\ Finish(p, [NoRes EXCEPT !.op = loc[p].op, !.ok = FALSE,
                    !.err = "Remove", !.ltype = loc[p].ltype,
                    !.pre = loc[p].pre])
    /\ UNCHANGED <<lock, roots, files, bins, plock, db, dflt, flock, nops>>
    /\ UNCHANGED findvars

\* a sync that installs nothing for the requirements left unsatisfied
SyncMissingSpecsNone(reqs) == {}

\* do_sync, lines 221-229: the install specs of the requirements that the
\* project sub-lock did not satisfy: entrypoints, built with Force
SyncMissingSpecs(reqs) ==
    {MkSpec(r, TRUE, FALSE, TRUE, ConstraintOf(r)) : r \in reqs}

\* do_sync, lines 216-236: the tree's lockfile, as read after the install,
\* is synced with the project sub-lock and flushed; then the requirements
\* the project sub-lock did not satisfy are installed from the remote DB
SyncFlush(p) ==
    /\ pc[p] = "sync_flush"
    /\ flock = 0
    /\ LET l == loc[p] IN
       \/ /\ lock' = LfSync(l.snap, plock[l.ltype])
          /\ IF l.reqs = {}
             THEN /\ Finish(p, [NoRes EXCEPT !.op = "sync", !.ok = TRUE,
                                  !.ltype = l.ltype, !.ids = l.toadd])
             ELSE /\ SetLoc(p, [l EXCEPT !.ret = "sync_back",
                                  !.usedb = "remote",
                                  !.queue = SyncMissingSpecs(l.reqs)])
                  /\ Goto(p, "inst_begin")
                  /\ UNCHANGED res
       \/ /\ SyncFail(p, "Io")
          /\ UNCHANGED lock
    /\ UNCHANGED <<roots, files, bins, plock, db, dflt, flock, nops>>
    /\ UNCHANGED findvars

\* a Sync that never writes the new packages back to the project sub-lock
SyncBackSkipped(plk, dest) == plk

\* do_sync, lines 240-242: the project sub-lock takes over the tree's lock
SyncBackLock(plk, dest) == LfSync(plk, dest)

\* do_sync, lines 237-245: the newly installed packages are synced back
\* into the project sub-lock
SyncBack(p) ==
    /\ pc[p] = "sync_back"
    /\ LET l == loc[p] IN
       IF l.failed
       THEN /\ SyncFail(p, "Install")
            /\ UNCHANGED plock
       ELSE /\ plock' = ProjectSync(plock, l.ltype,
                                     SyncBackLock(plock[l.ltype], lock))
            /\ Finish(p, [NoRes EXCEPT !.op = "sync", !.ok = TRUE,
                            !.ltype = l.ltype, !.ids = l.toadd,
                            !.reqs = l.reqs])
    /\ UNCHANGED <<lock, roots, files, bins, db, dflt, flock, nops>>
    /\ UNCHANGED findvars

(* ------------------------------ Update --------------------------------- *)
\* unpinned_packages: the unpinned rocks of the lockfile, each with the
\* requirement made of its own PackageSpec
UnpinnedPackages(lf) ==
    {<<i, IntoPackageReq(i)>> : i \in {j \in lf.rocks : ~j.pinned}}

\* is_included
IsIncluded(pk, filter) ==
    ~filter.some \/ \E r \in filter.reqs : ReqMatches(r, pk[1].name, pk[1].version)

\* PackageSpec::has_update_with: the version the DB offers for the
\* requirement, when it is newer than the package's own; 0 otherwise
HasUpdateWith(id, req, d) ==
    LET latest == FindRemote(d, req)
    IN  IF latest > id.version THEN latest ELSE 0

\* an update that takes every covered package the DB has a newer version
\* of, pinned or not
UpdatableNewest(lf, filter, d) ==
    {pk \in {<<i, IntoPackageReq(i)>> : i \in lf.rocks} :
       IsIncluded(pk, filter) /\ d[pk[1].name] > pk[1].version}

\* update, lines 270-284: the packages to remove and reinstall
Updatable(lf, filter, d) ==
    {pk \in {q \in UnpinnedPackages(lf) : IsIncluded(q, filter)} :
       HasUpdateWith(pk[1], pk[2], d) # 0 /\ ~pk[1].pinned}

\* mk_install_spec
MkInstallSpec(pk, lf) ==
    MkSpec(pk[2], LfIsEntrypoint(lf, pk[1]), FALSE, FALSE, ConstraintOf(pk[2]))

\* the packages an Update may be restricted to: None, or one package name
UpdateFilters ==
    {[some |-> FALSE, reqs |-> {}]} \cup
    {[some |-> TRUE, reqs |-> {[name |-> n, ver |-> 0]}] : n \in Names}

\* the package names an Update covers
FilterNames(filter) ==
    IF filter.some THEN {r.name : r \in filter.reqs} ELSE Names

\* lx update: update_install_tree (proj = FALSE) on the configured tree, or
\* update_dependency_tree for a project's tree (proj = TRUE).  update, lines
\* 270-304: with nothing updatable it returns the empty list; otherwise the
\* updatable packages are removed with Remove::new(config) and then
\* installed again from the remote DB
StartUpdate(p) ==
    /\ Idle(p) /\ nops < MaxOps
    /\ \E filter \in UpdateFilters, proj \in BOOLEAN, t \in LockTypes,
          same \in BOOLEAN :
         /\ proj \/ (same /\ t = "regular")
         /\ LET upd == Updatable(lock, filter, db) IN
            IF upd = {}
            THEN /\ Finish(p, [NoRes EXCEPT !.op = "update", !.ok = TRUE,
                                 !.names = FilterNames(filter)])
                 /\ nops' = nops + 1
            ELSE Begin(p, "rm_begin",
                       [NoLoc EXCEPT !.op = "update", !.rret = "inst_begin",
                          !.ret = "op_done", !.usedb = "remote",
                          !.snap = lock, !.ltype = t, !.same = same,
                          !.proj = proj, !.names = FilterNames(filter),
                          !.ids = {pk[1] : pk \in upd},
                          !.queue = {MkInstallSpec(pk, lock) : pk \in upd}])
    /\ UNCHANGED <<lock, roots, files, bins, plock, db, dflt, flock>>
    /\ UNCHANGED findvars

(* --------------------------- specification ----------------------------- *)
Step(p) ==
    \/ StartInstall(p) \/ StartBuild(p)
    \/ InstBegin(p) \/ InstNext(p) \/ BuildFetch(p) \/ BuildLayout(p)
    \/ BackendRustMlua(p) \/ BackendNone(p) \/ BuildInstall(p)
    \/ BuildFailed(p) \/ InstRecord(p) \/ BuildDone(p) \/ OpDone(p)
    \/ StartUninstall(p) \/ UnPick(p) \/ UnEtc(p) \/ UnRoot(p) \/ UnBins(p)
    \/ UnFlush(p)
    \/ RmBegin(p) \/ RmPick(p) \/ RmFlush(p) \/ SubFailed(p)
    \/ StartPin(p) \/ PinMkdir(p) \/ PinMove(p) \/ PinFlush(p)
    \/ StartSync(p) \/ SyncValidate(p) \/ SyncFlush(p) \/ SyncBack(p)
    \/ StartUpdate(p)

\* one operation at a time, run by process 1
Next ==
    \/ \E n \in Names : Publish(n)
    \/ Step(1)

Spec == Init /\ [][Next]_vars

(* ------------------ two processes on the same tree --------------------- *)
\* the tree after `install a` and `install b`
InitConc ==
    /\ lock = LfAddEntrypoint(
                 LfAddEntrypoint(EmptyLock, MkId("a", 1, FALSE, "any"), "A"),
                 MkId("b", 1, FALSE, "any"), "B")
    /\ roots = {MkId(n, 1, FALSE, "any") : n \in Names}
    /\ files = UNION {LayoutFiles(MkId(n, 1, FALSE, "any")) : n \in Names}
    /\ bins = {"a"}
    /\ plock = [t \in LockTypes |-> EmptyLock]
    /\ db = [n \in Names |-> 1]
    /\ dflt = {}
    /\ flock = 0
    /\ pc = [p \in Procs |-> "idle"]
    /\ loc = [p \in Procs |-> NoLoc]
    /\ res = [p \in Procs |-> NoRes]
    /\ nops = 0
    /\ vend = NoVend
    /\ unp = NoUnp
    /\ rps = NoRps
    /\ srcs = <<>>
    /\ found = NoFound
    /\ cfg = NoCfg
    /\ jobs = NoJobs
    /\ mf = NoMf

\* the operations that write the tree's lockfile directly
StepConc(p) ==
    \/ StartInstall(p)
    \/ InstBegin(p) \/ InstNext(p) \/ BuildFetch(p) \/ BuildLayout(p)
    \/ BackendRustMlua(p) \/ BackendNone(p) \/ BuildInstall(p)
    \/ BuildFailed(p) \/ InstRecord(p) \/ OpDone(p)
    \/ StartUninstall(p) \/ UnPick(p) \/ UnEtc(p) \/ UnRoot(p) \/ UnBins(p)
    \/ UnFlush(p)
    \/ StartPin(p) \/ PinMkdir(p) \/ PinMove(p) \/ PinFlush(p)

NextConc == \E p \in Procs : StepConc(p)

SpecConc == InitConc /\ [][NextConc]_vars

(* ---------------- one process on a tree with packages ------------------ *)
\* Install (forced or not), Build (forced or not), Remove and Pin, one at a
\* time, on the tree that holds a 1 and b 1
StepTree(p) ==
    \/ StartInstall(p) \/ StartInstallForce(p)
    \/ StartBuild(p) \/ StartBuildNoForce(p)
    \/ InstBegin(p) \/ InstNext(p) \/ BuildFetch(p) \/ BuildLayout(p)
    \/ BackendRustMlua(p) \/ BackendNone(p) \/ BuildInstall(p)
    \/ BuildFailed(p) \/ InstRecord(p) \/ BuildDone(p) \/ OpDone(p)
    \/ StartUninstall(p) \/ StartUninstallAgain(p)
    \/ UnPick(p) \/ UnEtc(p) \/ UnRoot(p) \/ UnBins(p) \/ UnFlush(p)
    \/ StartPin(p) \/ PinMkdir(p) \/ PinMove(p) \/ PinFlush(p)

NextTree == StepTree(1)

SpecTree == InitConc /\ [][NextTree]_vars

(* --------------------- PackageDB::find over remotes -------------------- *)
\* what one remote offers: the latest version per package name, 0 for a
\* package it does not have
SourceDBs == [Names -> 0..MaxVer]

\* the package DBs find is studied on: up to MaxSrc remotes in some order
PackageDBs == UNION {[1..n -> SourceDBs] : n \in 0..MaxSrc}

\* a find that asks every remote and takes the highest version offered
RECURSIVE FindHighest(_, _, _)
FindHighest(ss, req, k) ==
    IF k > Len(ss) THEN [src |-> 0, ver |-> 0, asked |-> Len(ss)]
    ELSE LET v == FindRemote(ss[k], req)
             rest == FindHighest(ss, req, k + 1)
         IN  IF v # 0 /\ v >= rest.ver
             THEN [src |-> k, ver |-> v, asked |-> Len(ss)]
             ELSE rest

\* PackageDB::find, lines 87-105: the remotes are asked one after the other,
\* from the k-th on; the first package a remote finds is returned and the
\* remotes after it are not asked.  src is the remote that answered (0:
\* RockNotFound), asked the number of remotes that were asked
RECURSIVE FindFirst(_, _, _)
FindFirst(ss, req, k) ==
    IF k > Len(ss) THEN [src |-> 0, ver |-> 0, asked |-> Len(ss)]
    ELSE LET v == FindRemote(ss[k], req)
         IN  IF v # 0 THEN [src |-> k, ver |-> v, asked |-> k]
             ELSE FindFirst(ss, req, k + 1)

InitFind ==
    /\ lock = EmptyLock
    /\ roots = {}
    /\ files = {}
    /\ bins = {}
    /\ plock = [t \in LockTypes |-> EmptyLock]
    /\ db = [n \in Names |-> 1]
    /\ dflt = {}
    /\ flock = 0
    /\ pc = [p \in Procs |-> "idle"]
    /\ loc = [p \in Procs |-> NoLoc]
    /\ res = [p \in Procs |-> NoRes]
    /\ nops = 0
    /\ vend = NoVend
    /\ unp = NoUnp
    /\ rps = NoRps
    /\ srcs \in PackageDBs
    /\ found = NoFound
    /\ cfg = NoCfg
    /\ jobs = NoJobs
    /\ mf = NoMf

\* find(package_req) on the package DB
FindReq(req) ==
    /\ LET f == FindFirst(srcs, req, 1)
       IN  found' = [req |-> req, src |-> f.src, ver |-> f.ver,
                     asked |-> f.asked]
    /\ UNCHANGED <<lock, roots, files, bins, plock, db, dflt, flock, pc, loc,
                   res, nops, srcs, cfg, jobs, mf,
                vend, unp, rps>>

NextFind == \E req \in Reqs : FindReq(req)

SpecFind == InitFind /\ [][NextFind]_vars

(* ------------------- PackageDB::from_config ---------------------------- *)
\* the server lists of a configuration
ServerLists == UNION {[1..n -> SourceDBs] : n \in 0..MaxServers}

\* the configurations: config.extra_servers(), config.enabled_dev_servers()
\* and config.server(), each server with the manifest it serves
Configs == [extra : ServerLists, dev : ServerLists, dflt : SourceDBs]

\* PackageDB::from_config, lines 64-76: the remotes are pushed for the
\* enabled dev servers, then for the extra servers, then for the server
FromConfig(c) == c.dev \o c.extra \o <<c.dflt>>

InitConfig ==
    /\ lock = EmptyLock
    /\ roots = {}
    /\ files = {}
    /\ bins = {}
    /\ plock = [t \in LockTypes |-> EmptyLock]
    /\ db = [n \in Names |-> 1]
    /\ dflt = {}
    /\ flock = 0
    /\ pc = [p \in Procs |-> "idle"]
    /\ loc = [p \in Procs |-> NoLoc]
    /\ res = [p \in Procs |-> NoRes]
    /\ nops = 0
    /\ vend = NoVend
    /\ unp = NoUnp
    /\ rps = NoRps
    /\ srcs = <<>>
    /\ found = NoFound
    /\ cfg \in Configs
    /\ jobs = NoJobs
    /\ mf = NoMf

\* PackageDB::from_config(config)
BuildDB ==
    /\ srcs = <<>>
    /\ srcs' = FromConfig(cfg)
    /\ UNCHANGED <<lock, roots, files, bins, plock, db, dflt, flock, pc, loc,
                   res, nops, found, cfg, jobs, mf,
                vend, unp, rps>>

\* find on the package DB that from_config built
FindBuilt(req) == srcs # <<>> /\ FindReq(req)

NextConfig == BuildDB \/ \E req \in Reqs : FindBuilt(req)

SpecConfig == InitConfig /\ [][NextConfig]_vars

(* ------------------ a package DB backed by a lockfile ------------------ *)
\* a find on a lockfile-backed DB that turns to the remotes when the
\* lockfile has no match
FindDBFallback(impl, lk, ss, req) ==
    IF impl = "lock" /\ FindLock(lk, req) # 0
    THEN [src |-> 0, ver |-> FindLock(lk, req), asked |-> 0]
    ELSE FindFirst(ss, req, 1)

\* PackageDB::find, lines 86-118: Impl::RemotePackageDBs asks the remotes;
\* Impl::Lock answers from the lockfile alone, with RockNotFoundInLockfile
\* (ver = 0) when no locked rock matches
FindDB(impl, lk, ss, req) ==
    IF impl = "lock"
    THEN [src |-> 0, ver |-> FindLock(lk, req), asked |-> 0]
    ELSE FindFirst(ss, req, 1)

\* the lockfiles that back a package DB: unpinned entrypoints
LockDBs ==
    {LfRemoveAll([rocks |-> Ids, entrypoints |-> Ids, srcB |-> {}], Ids \ r) :
       r \in {x \in SUBSET {MkId(n, v, FALSE, "any") :
                               n \in Names, v \in Versions} :
                Cardinality(x) <= MaxLocked}}

InitLockDB ==
    /\ lock = EmptyLock
    /\ roots = {}
    /\ files = {}
    /\ bins = {}
    /\ plock \in {[t \in LockTypes |-> IF t = "regular" THEN lk ELSE EmptyLock] :
                    lk \in LockDBs}
    /\ db = [n \in Names |-> 1]
    /\ dflt = {}
    /\ flock = 0
    /\ pc = [p \in Procs |-> "idle"]
    /\ loc = [p \in Procs |-> NoLoc]
    /\ res = [p \in Procs |-> NoRes]
    /\ nops = 0
    /\ vend = NoVend
    /\ unp = NoUnp
    /\ rps = NoRps
    /\ srcs \in PackageDBs
    /\ found = NoFound
    /\ cfg = NoCfg
    /\ jobs = NoJobs
    /\ mf = NoMf

\* find(package_req) on PackageDB::from(the regular sub-lock), as do_sync
\* (lines 179-190) hands it to Install, while the remotes exist
FindLocked(req) ==
    /\ LET f == FindDB("lock", plock["regular"], srcs, req)
       IN  found' = [req |-> req, src |-> f.src, ver |-> f.ver,
                     asked |-> f.asked]
    /\ UNCHANGED <<lock, roots, files, bins, plock, db, dflt, flock, pc, loc,
                   res, nops, srcs, cfg, jobs, mf,
                vend, unp, rps>>

NextLockDB == \E req \in Reqs : FindLocked(req)

SpecLockDB == InitLockDB /\ [][NextLockDB]_vars

(* ----------------- per-package tasks and max_jobs ---------------------- *)
\* the tasks of the operation that are in the given state
TasksIn(j, state) == {k \in 1..Len(j.st) : j.st[k] = state}

\* an operation over 1..MaxTasks packages: vendor_sources, uninstall.rs
\* remove, or remove.rs remove; every task is still to be spawned
InitJobs ==
    /\ lock = EmptyLock
    /\ roots = {}
    /\ files = {}
    /\ bins = {}
    /\ plock = [t \in LockTypes |-> EmptyLock]
    /\ db = [n \in Names |-> 1]
    /\ dflt = {}
    /\ flock = 0
    /\ pc = [p \in Procs |-> "idle"]
    /\ loc = [p \in Procs |-> NoLoc]
    /\ res = [p \in Procs |-> NoRes]
    /\ nops = 0
    /\ vend = NoVend
    /\ unp = NoUnp
    /\ rps = NoRps
    /\ srcs = <<>>
    /\ found = NoFound
    /\ cfg = NoCfg
    /\ jobs \in {[op |-> o, cap |-> c, st |-> [k \in 1..n |-> "pending"]] :
                   o \in {"vendor", "uninstall", "remove"},
                   c \in 1..MaxJobs, n \in 1..MaxTasks}
    /\ mf = NoMf

JobsFrame ==
    UNCHANGED <<lock, roots, files, bins, plock, db, dflt, flock, pc, loc,
                res, nops, srcs, found, cfg, mf,
                vend, unp, rps>>

\* vendor.rs line 267 and uninstall.rs line 96, stream::iter(..).buffered(
\* config.max_jobs()): the next item of the iterator is taken, and its task
\* spawned, while fewer than max_jobs futures are held in the buffer
BufferedSpawn(k) ==
    /\ jobs.op \in {"vendor", "uninstall"}
    /\ k \in TasksIn(jobs, "pending")
    /\ \A j \in 1..(k - 1) : jobs.st[j] # "pending"
    /\ Cardinality(TasksIn(jobs, "running") \cup TasksIn(jobs, "done"))
         < jobs.cap
    /\ jobs' = [jobs EXCEPT !.st[k] = "running"]
    /\ JobsFrame

\* a spawned task runs to its end
TaskEnd(k) ==
    /\ k \in TasksIn(jobs, "running")
    /\ jobs' = [jobs EXCEPT !.st[k] = "done"]
    /\ JobsFrame

\* buffered yields the results in the order of the items
BufferedYield(k) ==
    /\ jobs.op \in {"vendor", "uninstall"}
    /\ k \in TasksIn(jobs, "done")
    /\ \A j \in 1..(k - 1) : jobs.st[j] = "out"
    /\ jobs' = [jobs EXCEPT !.st[k] = "out"]
    /\ JobsFrame

\* remove.rs remove, lines 87-93: join_all(packages.into_iter().map(|p|
\* tokio::spawn(remove_package(..)))) collects the iterator, which spawns a
\* task for every package, and then awaits them all
JoinAllSpawn ==
    /\ jobs.op = "remove"
    /\ TasksIn(jobs, "pending") # {}
    /\ jobs' = [jobs EXCEPT !.st = [k \in 1..Len(jobs.st) |-> "running"]]
    /\ JobsFrame

\* join_all returns when every task has ended
JoinAllDone ==
    /\ jobs.op = "remove"
    /\ TasksIn(jobs, "done") = 1..Len(jobs.st)
    /\ jobs' = [jobs EXCEPT !.st = [k \in 1..Len(jobs.st) |-> "out"]]
    /\ JobsFrame

NextJobs ==
    \/ \E k \in 1..MaxTasks : BufferedSpawn(k)
    \/ \E k \in 1..MaxTasks : TaskEnd(k)
    \/ \E k \in 1..MaxTasks : BufferedYield(k)
    \/ JoinAllSpawn
    \/ JoinAllDone

SpecJobs == InitJobs /\ [][NextJobs]_vars

(* --------------- the manifest of a server and its cache ---------------- *)
\* how a server answers a request: 200, a client error, or any other
\* failure of the request
Statuses == {"ok", "4xx", "5xx"}

\* Manifest::from_config is called for a server: the server answers the
\* zipped and the unzipped manifest URL with a status each, or never
\* answers; its manifest carries a Last-Modified time (0: no such header)
\* and parses or not; the cache file is missing, or holds a manifest
\* (parsable or not) written at some time
InitManifest ==
    /\ lock = EmptyLock
    /\ roots = {}
    /\ files = {}
    /\ bins = {}
    /\ plock = [t \in LockTypes |-> EmptyLock]
    /\ db = [n \in Names |-> 1]
    /\ dflt = {}
    /\ flock = 0
    /\ pc = [p \in Procs |-> "idle"]
    /\ loc = [p \in Procs |-> NoLoc]
    /\ res = [p \in Procs |-> NoRes]
    /\ nops = 0
    /\ vend = NoVend
    /\ unp = NoUnp
    /\ rps = NoRps
    /\ srcs = <<>>
    /\ found = NoFound
    /\ cfg = NoCfg
    /\ jobs = NoJobs
    /\ mf \in {[NoMf EXCEPT !.pc = "start", !.zip = z, !.plain = pl,
                   !.lm = t, !.answers = an, !.oldok = oo, !.newok = no,
                   !.had = (m # 0), !.mt0 = m,
                   !.cache = IF m = 0 THEN "none" ELSE "old"] :
                 z \in Statuses, pl \in Statuses, t \in 0..MaxTime,
                 an \in BOOLEAN, oo \in BOOLEAN, no \in BOOLEAN,
                 m \in 0..MaxTime}

MfFrame ==
    UNCHANGED <<lock, roots, files, bins, plock, db, dflt, flock, pc, loc,
                res, nops, srcs, found, cfg, jobs,
                vend, unp, rps>>

\* the loading returns an error
MfFail(kind) == [mf EXCEPT !.pc = "done", !.ret = "err", !.err = kind]

\* get_manifest, line 44: the zipped manifest is requested
MfGetManifest(m) ==
    [m EXCEPT !.pc = "get", !.log = Append(@, "GET zip")]

\* a load that trusts an existing cache file whatever the server says
MfDecideCached(m) == [m EXCEPT !.pc = "parse", !.c = m.cache, !.c1 = m.cache]

\* manifest_from_cache_or_server, lines 118-141, with the response to the
\* HEAD request: with a Last-Modified header the manifest is downloaded if
\* the server's time is newer than the cache file's, and the cache file is
\* read otherwise; without the header the manifest is downloaded
MfDecide(m) ==
    IF m.lm # 0 /\ ~(m.lm > m.mt0)
    THEN [m EXCEPT !.pc = "parse", !.c = m.cache, !.c1 = m.cache]
    ELSE MfGetManifest(m)

\* manifest_from_cache_or_server, lines 106-110 and 137-141: with a cache
\* file, ask the server for the headers of the zipped manifest; without
\* one, get the manifest
CacheOrServerStart ==
    /\ mf.pc = "start"
    /\ mf' = IF mf.had
             THEN [mf EXCEPT !.pc = "head", !.log = Append(@, "HEAD zip")]
             ELSE MfGetManifest(mf)
    /\ MfFrame

\* lines 110-116: the answer to HEAD; a client error sends HEAD to the
\* unzipped URL, any other failure is returned
HeadResponse ==
    /\ mf.pc = "head" /\ mf.answers
    /\ mf' = CASE mf.zip = "4xx" ->
                    [mf EXCEPT !.pc = "head2", !.log = Append(@, "HEAD plain")]
               [] mf.zip = "5xx" -> MfFail("Request")
               [] OTHER -> MfDecide(mf)
    /\ MfFrame

\* line 113: the answer to HEAD on the unzipped URL
HeadFallbackResponse ==
    /\ mf.pc = "head2" /\ mf.answers
    /\ mf' = IF mf.plain = "ok" THEN MfDecide(mf) ELSE MfFail("Request")
    /\ MfFrame

\* a get_manifest that gives up on a client error
MfGetNoFallback(m) ==
    IF m.zip = "ok" THEN [m EXCEPT !.pc = "wr_trunc"] ELSE MfFail("Request")

\* get_manifest, lines 44-46 and 58: the answer to GET on the zipped URL; a
\* client error sends GET to the unzipped URL, any other failure is returned
MfGetAnswered(m) ==
    CASE m.zip = "4xx" ->
           [m EXCEPT !.pc = "get2", !.log = Append(@, "GET plain")]
      [] m.zip = "5xx" -> MfFail("Request")
      [] OTHER -> [m EXCEPT !.pc = "wr_trunc"]

GetResponse ==
    /\ mf.pc = "get" /\ mf.answers
    /\ \/ mf' = MfGetAnswered(mf)
       \/ \* lines 59-66: the archive cannot be read or extracted
          /\ mf.zip = "ok"
          /\ mf' = MfFail("Zip")
    /\ MfFrame

\* get_manifest, lines 47-53: the answer to GET on the unzipped URL
GetFallbackResponse ==
    /\ mf.pc = "get2" /\ mf.answers
    /\ mf' = IF mf.plain = "ok" THEN [mf EXCEPT !.pc = "wr_trunc"]
             ELSE MfFail("Request")
    /\ MfFrame

\* get_manifest, line 55 (fs::write) and lines 70-76 (open with truncate):
\* the cache file is created or emptied in place, unless it cannot be
\* opened
CacheTruncate ==
    /\ mf.pc = "wr_trunc"
    /\ \/ mf' = [mf EXCEPT !.pc = "wr_part", !.cache = "empty"]
       \/ mf' = MfFail("Io")
    /\ MfFrame

\* lines 55 and 78: the manifest is written into the cache file
CacheWritePart ==
    /\ mf.pc = "wr_part"
    /\ mf' = [mf EXCEPT !.pc = "wr_done", !.cache = "partial"]
    /\ MfFrame

\* lines 56 and 78-85: the write ends and get_manifest returns the manifest
CacheWriteDone ==
    /\ mf.pc = "wr_done"
    /\ mf' = [mf EXCEPT !.pc = "parse", !.cache = "new", !.c = "new",
                       !.c1 = IF mf.bypass THEN @ ELSE "new"]
    /\ MfFrame

\* ManifestMetadata::new(content)
MfParses(m) == IF m.c = "old" THEN m.oldok ELSE m.newok

\* a load that gives up when the manifest does not parse
MfAfterParseNoRetry(m) ==
    IF MfParses(m) THEN [m EXCEPT !.pc = "done", !.ret = "ok"]
    ELSE [m EXCEPT !.pc = "done", !.ret = "err", !.err = "Parse"]

\* Manifest::from_config, lines 55-61: the content is parsed; if that fails
\* the manifest is fetched with manifest_from_server_only (lines 144-157)
\* and parsed again, and that result is final
MfAfterParse(m) ==
    IF MfParses(m) THEN [m EXCEPT !.pc = "done", !.ret = "ok"]
    ELSE IF ~m.bypass THEN MfGetManifest([m EXCEPT !.bypass = TRUE])
    ELSE [m EXCEPT !.pc = "done", !.ret = "err", !.err = "Parse"]

FromConfigParse ==
    /\ mf.pc = "parse"
    /\ mf' = MfAfterParse(mf)
    /\ MfFrame

\* another process reads the cache file (line 133, fs::read_to_string)
ReadCache ==
    /\ mf.pc # "-" /\ mf.cache # "none"
    /\ mf.seen # mf.cache
    /\ mf' = [mf EXCEPT !.seen = mf.cache]
    /\ MfFrame

\* the steps of the process that loads the manifest
LoadStep ==
    \/ CacheOrServerStart \/ HeadResponse \/ HeadFallbackResponse
    \/ GetResponse \/ GetFallbackResponse
    \/ CacheTruncate \/ CacheWritePart \/ CacheWriteDone
    \/ FromConfigParse

NextManifest == LoadStep \/ ReadCache

SpecManifest == InitManifest /\ [][NextManifest]_vars

\* the loading process is scheduled as long as it can take a step
SpecManifestLive == SpecManifest /\ WF_vars(LoadStep)

(* ------------------------ running the tests ---------------------------- *)
\* a test run that takes the project lockfile whatever no_lock says
TestUsesLockAlways(no_lock) == TRUE

\* run_tests, line 106: the project lockfile is used unless no_lock is set
TestUsesLock(no_lock) == ~no_lock

\* run_tests (operations/test.rs 100-144) for the dependencies of the
\* project's rockspec. With the lockfile: Sync of the tree with the
\* project lockfile, given the dependencies (lines 116-143). With no_lock:
\* ensure_dependencies (lines 254-281), an Install of the dependencies the
\* tree already holds, as entrypoints with Force
RunTests(p) ==
    /\ Idle(p) /\ nops < MaxOps
    /\ \E no_lock \in BOOLEAN, deps \in SyncRequests, pin \in BOOLEAN,
          validate \in BOOLEAN, same \in BOOLEAN :
         IF TestUsesLock(no_lock)
         THEN LET t == "regular"
                  plk == LfRemoveAll(plock[t], SyncToRemove(plock[t], deps))
                  added == SyncAdded(plk, lock)
              IN  /\ plock' = [plock EXCEPT ![t] = plk]
                  /\ Begin(p, "inst_begin",
                           [NoLoc EXCEPT !.op = "sync", !.ret = "sync_validate",
                              !.ltype = t, !.reqs = SyncToAdd(plock[t], deps),
                              !.validate = validate, !.same = same,
                              !.snap = lock, !.toadd = added,
                              !.removed = SyncRemoved(plk, lock),
                              !.queue = {SyncInstallSpec(plk, i) : i \in added},
                              !.usedb = "lock", !.pre = Pre,
                              !.nolock = no_lock])
         ELSE /\ validate /\ same   \* an Install takes neither option
              /\ plock' = plock
              /\ Begin(p, "inst_begin",
                       [NoLoc EXCEPT !.op = "test", !.ret = "op_done",
                          !.queue = {MkSpec(r, TRUE, pin, TRUE, ConstraintOf(r)) :
                                       r \in {d \in deps : MatchRocksFound(lock, d)}},
                          !.names = {d.name : d \in deps},
                          !.usedb = "remote", !.nolock = no_lock])
    /\ UNCHANGED <<lock, roots, files, bins, db, dflt, flock>>
    /\ UNCHANGED findvars

\* a project whose tree holds a 1 and b 1, with a project lockfile
InitTest ==
    /\ lock = LfAddEntrypoint(
                 LfAddEntrypoint(EmptyLock, MkId("a", 1, FALSE, "any"), "A"),
                 MkId("b", 1, FALSE, "any"), "B")
    /\ roots = {MkId(n, 1, FALSE, "any") : n \in Names}
    /\ files = UNION {LayoutFiles(MkId(n, 1, FALSE, "any")) : n \in Names}
    /\ bins = {"a"}
    /\ plock \in InitProjectLocks
    /\ db = [n \in Names |-> 1]
    /\ dflt = {}
    /\ flock = 0
    /\ pc = [q \in Procs |-> "idle"]
    /\ loc = [q \in Procs |-> NoLoc]
    /\ res = [q \in Procs |-> NoRes]
    /\ nops = 0
    /\ vend = NoVend
    /\ unp = NoUnp
    /\ rps = NoRps
    /\ srcs = <<>>
    /\ found = NoFound
    /\ cfg = NoCfg
    /\ jobs = NoJobs
    /\ mf = NoMf

\* the test runs of process 1, and the Install and Sync they call
NextTest ==
    \/ RunTests(1)
    \/ InstBegin(1) \/ InstNext(1) \/ BuildFetch(1) \/ BuildLayout(1)
    \/ BackendRustMlua(1) \/ BackendNone(1) \/ BuildInstall(1)
    \/ BuildFailed(1) \/ InstRecord(1) \/ OpDone(1)
    \/ RmBegin(1) \/ RmPick(1) \/ RmFlush(1) \/ SubFailed(1)
    \/ SyncValidate(1) \/ SyncFlush(1) \/ SyncBack(1)

SpecTest == InitTest /\ [][NextTest]_vars

(* ------------------- update with something to update ------------------ *)
\* update (update.rs 262-305) entered with packages whose requirement the
\* DB answers with a newer version: the updatable packages are removed
\* with Remove::new(config) and then installed again from the remote DB
StartUpdateGiven(p) ==
    /\ Idle(p) /\ nops < MaxOps
    /\ \E filter \in UpdateFilters, same \in BOOLEAN :
         LET upd == {<<i, [name |-> i.name, ver |-> 0]>> :
                       i \in {j \in lock.rocks :
                                /\ ~j.pinned
                                /\ db[j.name] > j.version
                                /\ IsIncluded(<<j, IntoPackageReq(j)>>, filter)}}
         IN  /\ upd # {}
             /\ Begin(p, "rm_begin",
                      [NoLoc EXCEPT !.op = "update", !.rret = "inst_begin",
                         !.ret = "op_done", !.usedb = "remote",
                         !.snap = lock, !.same = same,
                         !.names = FilterNames(filter),
                         !.ids = {pk[1] : pk \in upd},
                         !.queue = {MkInstallSpec(pk, lock) : pk \in upd}])
    /\ UNCHANGED <<lock, roots, files, bins, plock, db, dflt, flock>>
    /\ UNCHANGED findvars

\* new versions are published and the tree that holds a 1 and b 1 is
\* updated by process 1
NextUpdate ==
    \/ \E n \in Names : Publish(n)
    \/ StartUpdateGiven(1)
    \/ RmBegin(1) \/ RmPick(1) \/ RmFlush(1) \/ SubFailed(1)
    \/ InstBegin(1) \/ InstNext(1) \/ BuildFetch(1) \/ BuildLayout(1)
    \/ BackendRustMlua(1) \/ BackendNone(1) \/ BuildInstall(1)
    \/ BuildFailed(1) \/ InstRecord(1) \/ OpDone(1)

SpecUpdate == InitConc /\ [][NextUpdate]_vars

(* ------------------------------ properties ----------------------------- *)
AllIdle == \A p \in Procs : Idle(p)

\* C1: whenever no operation is in progress, a package directory exists in
\* the tree if and only if the package's id is recorded in the tree's
\* lockfile
C1_DirIffLocked == AllIdle => roots = lock.rocks

\* C2: every id in a lockfile's entrypoint set is a key of that lockfile's
\* rocks map, in the tree's lockfile and in every project sub-lock
C2_EntrypointsRecorded ==
    /\ lock.entrypoints \subseteq lock.rocks
    /\ \A t \in LockTypes : plock[t].entrypoints \subseteq plock[t].rocks

\* a Pin has replaced an entrypoint: the old id has left the lockfile and
\* the new one is an entrypoint of it
C2_Witness ==
    \E p \in Procs :
      /\ Idle(p) /\ res[p].op = "pin" /\ res[p].ok
      /\ res[p].newid \in lock.entrypoints
      /\ res[p].id \notin lock.rocks

\* the process is inside a Remove, between reading the lockfile and
\* returning
RemoveRunning(p) ==
    pc[p] \in {"un_pick", "un_etc", "un_root", "un_bins", "un_flush",
               "rm_pick", "rm_flush"}

\* the step deletes files of package i
Deleted(i) ==
    \/ i \in roots /\ i \notin roots'
    \/ FilesOf(files, i) \ FilesOf(files', i) # {}

\* C3: during a Remove of package X, files of X are deleted only when the
\* lockfile no longer lists X: the lockfile update that drops X comes first
C3_DeleteAfterFlush ==
    [][\A p \in Procs :
         RemoveRunning(p) =>
           \A i \in loc[p].ids : Deleted(i) => i \notin lock.rocks]_vars

\* C4: when a Sync for lock type T has returned successfully, the packages
\* in the tree's lockfile are those of the project lockfile's T sub-lock
C4_SyncEqual ==
    \A p \in Procs :
      (Idle(p) /\ res[p].op = "sync" /\ res[p].ok) =>
        lock.rocks = plock[res[p].ltype].rocks

\* a Sync that carried a new requirement has returned successfully and the
\* tree holds packages
C4_Witness ==
    \E p \in Procs :
      /\ Idle(p) /\ res[p].op = "sync" /\ res[p].ok
      /\ res[p].reqs # {}
      /\ lock.rocks # {}

\* the ids an operation's result is about
Touched(r) == IF r.op = "pin" THEN {r.id, r.newid} ELSE r.ids

\* the lockfile shows the change a successful operation made
Reflected(r, lf) ==
    CASE r.op = "install" -> r.ids \subseteq lf.rocks
      [] r.op = "remove" -> r.ids \cap lf.rocks = {}
      [] r.op = "pin" -> r.newid \in lf.rocks /\ r.id \notin lf.rocks
      [] OTHER -> TRUE

\* C5: when two operations on the same tree's lockfile ran concurrently and
\* both succeeded, on different packages, the final lockfile reflects the
\* changes of both
C5_BothReflected ==
    (/\ AllIdle
     /\ \A p \in Procs : res[p].op # "-" /\ res[p].ok
     /\ Touched(res[1]) \cap Touched(res[2]) = {})
    => \A p \in Procs : Reflected(res[p], lock)

\* C6: at every point of a change of pin state, and after it failed at any
\* step, either the lockfile and the directory both refer to the old id, or
\* both refer to the new id
C6_PinAtomic ==
    \A p \in Procs :
      LET running == loc[p].op = "pin"
          failed == /\ Idle(p) /\ res[p].op = "pin" /\ ~res[p].ok
                    /\ res[p].err \in {"CreateDir", "MoveItemsFailure",
                                       "FlushLockfile"}
          o == IF running THEN loc[p].id ELSE res[p].id
          n == IF running THEN loc[p].newid ELSE res[p].newid
      IN  (running \/ failed) =>
            \/ /\ o \in lock.rocks /\ n \notin lock.rocks
               /\ FilesOf(files, n) = {}
            \/ /\ n \in lock.rocks /\ o \notin lock.rocks
               /\ FilesOf(files, o) = {}

\* C7: when the build backend failed for a package and the build returns
\* its error, nothing of the package's RockLayout root is in the tree
C7_NoLayoutAfterBackendFailure ==
    \A p \in Procs :
      (pc[p] = "build_failed" /\ loc[p].failat = "backend") =>
        /\ loc[p].id \notin roots
        /\ FilesOf(files, loc[p].id) = {}

\* C8: when a Sync has failed with an integrity error, the tree and the
\* tree's lockfile are as they were before the Sync started
C8_IntegrityNoPartialCommit ==
    \A p \in Procs :
      (Idle(p) /\ res[p].op = "sync" /\ res[p].err = "Integrity") =>
        /\ lock = res[p].pre.lock
        /\ roots = res[p].pre.roots
        /\ files = res[p].pre.files
        /\ bins = res[p].pre.bins

\* the step starts an Update in process p
UpdateStarts(p) ==
    /\ Idle(p) /\ nops' = nops + 1
    /\ res'[p].op = "update" \/ loc'[p].op = "update"

\* the requirement a package was installed with
OriginalReq(i) ==
    [name |-> i.name, ver |-> IF i.c = "any" THEN 0 ELSE i.version]

\* the unpinned packages of the covered names for which the DB has a newer
\* version that satisfies the requirement they were installed with
ShouldUpdate(lf, names, d) ==
    {i \in lf.rocks : /\ i.name \in names /\ ~i.pinned
                      /\ HasUpdateWith(i, OriginalReq(i), d) # 0}

\* C9: the packages an Update removes and reinstalls are exactly the
\* unpinned ones for which the DB has a newer version satisfying the
\* constraint they were installed with
C9_UpdateWhenNewer ==
    [][\A p \in Procs :
         UpdateStarts(p) =>
           loc'[p].ids =
             ShouldUpdate(lock, IF pc'[p] = "idle" THEN res'[p].names
                                ELSE loc'[p].names, db)]_vars

\* the step leaves every pinned package as it is
PinnedUnchanged ==
    \A i \in Ids :
      i.pinned =>
        /\ (i \in lock.rocks) = (i \in lock'.rocks)
        /\ (i \in lock.entrypoints) = (i \in lock'.entrypoints)
        /\ (i \in roots) = (i \in roots')
        /\ FilesOf(files, i) = FilesOf(files', i)

TreeUnchanged ==
    /\ lock' = lock /\ roots' = roots /\ files' = files /\ bins' = bins

C13_RemovedAfterSuccess ==
    \A p \in Procs :
      (pc[p] = "op_done" /\ loc[p].op = "remove" /\ ~loc[p].failed) =>
        \A i \in RemoveTargets(loc[p].rsnap, loc[p].ids) :
          /\ i \notin roots
          /\ FilesOf(files, i) = {}
          /\ BinariesOf(i.name) \cap bins = {}
          /\ i \notin lock.rocks

\* C14: when a Sync returns successfully, every rock that the tree's
\* lockfile recorded and the project sub-lock did not hold is gone from the
\* target tree: its directory and files and its lockfile entry
C14_SyncRemovesAbsent ==
    [][\A p \in Procs :
         (/\ loc[p].op = "sync" /\ pc'[p] = "idle"
          /\ res'[p].op = "sync" /\ res'[p].ok) =>
           \A i \in loc[p].removed :
             /\ i \notin roots'
             /\ FilesOf(files', i) = {}
             /\ i \notin lock'.rocks]_vars

C16_SyncInstallsMissing ==
    \A p \in Procs :
      (Idle(p) /\ res[p].op = "sync" /\ res[p].ok) =>
        \A r \in res[p].reqs :
          \E i \in lock.rocks :
            /\ ReqMatches(r, i.name, i.version)
            /\ i \in roots
            /\ i \in plock[res[p].ltype].rocks

\* a Sync has returned successfully after installing a package for a
\* requirement that the project sub-lock did not satisfy
C16_Witness ==
    \E p \in Procs :
      /\ Idle(p) /\ res[p].op = "sync" /\ res[p].ok
      /\ \E r \in res[p].reqs :
           \E i \in lock.rocks \cap roots :
             /\ ReqMatches(r, i.name, i.version)
             /\ i \in plock[res[p].ltype].rocks

\* the lock type of the Sync or Update that process p runs or starts
OpLockType(p) ==
    IF loc[p].op \in {"sync", "update"} THEN loc[p].ltype ELSE loc'[p].ltype

\* C17: no step of a Sync or an Update for lock type T changes a sub-lock
\* of the project lockfile other than T's
C17_OtherSubLocksKept ==
    [][\A p \in Procs :
         (\/ loc[p].op \in {"sync", "update"}
          \/ Idle(p) /\ loc'[p].op \in {"sync", "update"}
          \/ Idle(p) /\ res'[p].op \in {"sync", "update"}) =>
           \A t \in LockTypes \ {OpLockType(p)} : plock'[t] = plock[t]]_vars

\* a Sync that installed a new requirement has written its sub-lock while
\* another sub-lock holds a rock
C17_Witness ==
    \E p \in Procs :
      /\ Idle(p) /\ res[p].op = "sync" /\ res[p].ok /\ res[p].reqs # {}
      /\ plock[res[p].ltype].rocks # {}
      /\ \E t \in LockTypes \ {res[p].ltype} :
           /\ plock[t].rocks # {}
           /\ plock[t].rocks # plock[res[p].ltype].rocks

\* the step starts a change of pin state in process p
PinStarts(p) ==
    /\ Idle(p) /\ nops' = nops + 1
    /\ res'[p].op = "pin" \/ loc'[p].op = "pin"

\* C18: a change of pin state whose new id is recorded in the lockfile
\* fails at once, with tree and lockfile untouched; the error is the pin
\* state conflict whenever the package is a recorded entrypoint of the other
\* pin state whose directory can be read
C18_PinConflictFirst ==
    [][\A p \in Procs :
         PinStarts(p) =>
           LET id == IF pc'[p] = "idle" THEN res'[p].id ELSE loc'[p].id
               new == IF pc'[p] = "idle" THEN res'[p].newid ELSE loc'[p].newid
           IN  LfGet(lock, new) =>
                 /\ pc'[p] = "idle" /\ ~res'[p].ok
                 /\ TreeUnchanged
                 /\ (/\ LfGet(lock, id) /\ LfIsEntrypoint(lock, id)
                     /\ new # id /\ id \in roots) =>
                      res'[p].err = "PinStateConflict"]_vars

\* a change of pin state has failed with the conflict error in a tree that
\* holds the package in both pin states
C18_Witness ==
    \E p \in Procs :
      /\ Idle(p) /\ res[p].op = "pin" /\ ~res[p].ok
      /\ res[p].err = "PinStateConflict"
      /\ res[p].id # res[p].newid
      /\ {res[p].id, res[p].newid} \subseteq lock.rocks \cap roots

\* C19: when a change of pin state has returned successfully, the lockfile
\* holds the new id and not the old one, the new id's directory exists and
\* no file is left under the old id, and the old id's directory no longer
\* exists
C19_PinMovesPackage ==
    \A p \in Procs :
      (Idle(p) /\ res[p].op = "pin" /\ res[p].ok) =>
        /\ res[p].id \notin lock.rocks
        /\ res[p].newid \in lock.rocks
        /\ res[p].newid \in roots
        /\ FilesOf(files, res[p].id) = {}
        /\ res[p].id \notin roots

\* the remotes of the package DB that have a package for the requirement
Hits(req) == {k \in 1..Len(srcs) : FindRemote(srcs[k], req) # 0}

C21_ExtraBeforeDev ==
    srcs # <<>> =>
      /\ srcs = cfg.extra \o cfg.dev \o <<cfg.dflt>>
      /\ (/\ found.req # NoReq
          /\ \E k \in 1..Len(cfg.extra) :
                FindRemote(cfg.extra[k], found.req) # 0
          /\ \E k \in 1..Len(cfg.dev) :
                FindRemote(cfg.dev[k], found.req) # 0) =>
           /\ found.src \in 1..Len(cfg.extra)
           /\ found.ver = FindRemote(cfg.extra[found.src], found.req)

\* C22: a find on a package DB backed by a lockfile asks no remote; it
\* returns the version of a locked rock that satisfies the requirement, and
\* the not-found error when no locked rock satisfies it
C22_LockDBOnly ==
    found.req # NoReq =>
      /\ found.asked = 0 /\ found.src = 0
      /\ IF \E i \in plock["regular"].rocks :
              ReqMatches(found.req, i.name, i.version)
         THEN \E i \in plock["regular"].rocks :
                /\ ReqMatches(found.req, i.name, i.version)
                /\ found.ver = i.version
         ELSE found.ver = 0

\* a find on the lockfile-backed DB has failed for a requirement that a
\* remote could satisfy
C22_Witness ==
    /\ found.req # NoReq /\ found.ver = 0 /\ found.asked = 0
    /\ plock["regular"].rocks # {}
    /\ \E k \in 1..Len(srcs) : FindRemote(srcs[k], found.req) # 0

\* C23: within one operation, at no time do more than config.max_jobs
\* per-package tasks run concurrently
C23_MaxJobs == Cardinality(TasksIn(jobs, "running")) <= jobs.cap

\* C24: a process that reads the manifest cache file while another one
\* refreshes it sees the complete old or the complete new manifest, never
\* an empty or partly written file.
C24_CacheReadAtomic == mf.seen \in {"-", "old", "new"}

\* C25 as stated: the manifest is downloaded by the cache-or-server load
\* only if no cache file existed or the server's Last-Modified time is
\* newer than the cache file's.
MfDownloaded == mf.pc # "-" /\ ~mf.bypass /\ mf.pc \in {"get", "get2", "wr_trunc", "wr_part", "wr_done"}

MfFirstUnparsable ==
    /\ mf.c1 # "-"
    /\ IF mf.c1 = "old" THEN ~mf.oldok ELSE ~mf.newok

\* C27: if the content obtained through the cache does not parse, the
\* manifest is fetched once more from the server without looking at the
\* cache, and the load fails only if that fresh copy cannot be fetched or
\* does not parse either; a content that parses is never fetched again.
C27_RefetchOnParseFailure ==
    LET n == Len(mf.log)
        gets == Cardinality({i \in 1..n : mf.log[i] = "GET zip"}) IN
    /\ mf.bypass => MfFirstUnparsable
    /\ \A i \in 1..n : mf.log[i] \in {"HEAD zip", "HEAD plain"} => i <= 2
    /\ (MfFirstUnparsable /\ mf.pc = "done") =>
          /\ mf.bypass
          /\ gets = (IF mf.c1 = "new" THEN 2 ELSE 1)
          /\ mf.ret = "ok" => (mf.c = "new" /\ mf.newok)
          /\ mf.ret = "err" =>
                \/ mf.err \in {"Request", "Zip", "Io"}
                \/ mf.err = "Parse" /\ mf.c = "new" /\ ~mf.newok

\* the cached manifest did not parse, the server's did, and the load
\* succeeded with the server's
C27_Witness ==
    /\ mf.c1 = "old" /\ ~mf.oldok /\ mf.newok /\ mf.bypass
    /\ mf.pc = "done" /\ mf.ret = "ok" /\ mf.c = "new"

\* a request of the load is on its way and has not been answered
MfWaiting == mf.pc \in {"head", "head2", "get", "get2"}

\* C28: every network request made while a manifest is fetched completes
\* or fails (within config.timeout): a load that waits for an answer
\* eventually stops waiting, whatever the server does.
C28_RequestEnds == [](MfWaiting => <>(~MfWaiting))

C30_NoLockKeepsProjectLock ==
    [][\A p \in Procs :
         (loc[p].nolock \/ loc'[p].nolock) => plock' = plock]_vars

\* a test run with no_lock has installed a dependency again, in a project
\* whose lockfile does not list what the tree holds
C30_Witness ==
    \E p \in Procs :
      /\ Idle(p) /\ res[p].op = "test" /\ res[p].ok /\ res[p].ids # {}
      /\ plock["regular"].rocks # {}
      /\ plock["regular"].rocks # lock.rocks

\* C34: after the test preparation with no_lock has succeeded, every
\* declared dependency is installed in the tree, also those that were not
\* installed before.
C34_NoLockInstallsAll ==
    \A p \in Procs :
      (Idle(p) /\ res[p].op = "test" /\ res[p].ok) =>
        \A n \in res[p].names : \E i \in lock.rocks : i.name = n

C36_RemovalsInGivenTree ==
    [][\A p \in Procs :
         loc[p].op \in {"sync", "update"} => dflt' = dflt]_vars

\* C37: when a Remove is about to return and the directory of a requested
\* package is still in the tree because deleting it failed, the Remove
\* returns an error and the lockfile still holds that package's entry.
C37_FailedDeleteIsError ==
    \A p \in Procs :
      (pc[p] = "op_done" /\ loc[p].op = "remove") =>
        \A i \in RemoveTargets(loc[p].rsnap, loc[p].ids) :
          i \in roots => (loc[p].failed /\ i \in lock.rocks)

\* C38: removing a package never deletes from bin/ a binary of another
\* package that is an entrypoint of the tree and is not being removed.
C38_RemoveKeepsOthersBinaries ==
    [][\A p \in Procs :
         pc[p] = "un_bins" =>
           \A b \in bins \ bins' :
              ~\E y \in lock.entrypoints \ loc[p].ids :
                 /\ y # loc[p].id /\ y \in roots
                 /\ b \in BinariesOf(y.name)]_vars

\* the ids the tree of SpecTree holds at first, all unpinned entrypoints
TreeIds == {MkId(n, 1, FALSE, "any") : n \in Names}

\* C39: pinning an installed entrypoint and then unpinning it restores the
\* original state: when the unpin of a package of the original tree has
\* succeeded right after its pin, the lockfile holds the package under its
\* original id as an entrypoint, with what it recorded before, and nothing
\* under the pinned id, and all the package's files are under the original
\* id's directory again.
C39_PinUnpinRoundTrip ==
    \A p \in Procs :
      (/\ Idle(p) /\ res[p].op = "pin" /\ res[p].ok /\ nops = 2
       /\ res[p].id.pinned /\ res[p].newid \in TreeIds) =>
        /\ lock = LfAddEntrypoint(
                     LfAddEntrypoint(EmptyLock, MkId("a", 1, FALSE, "any"), "A"),
                     MkId("b", 1, FALSE, "any"), "B")
        /\ res[p].id \notin lock.rocks
        /\ FilesOf(files, res[p].newid) = LayoutFiles(res[p].newid)
        /\ FilesOf(files, res[p].id) = {}
        /\ files = UNION {LayoutFiles(i) : i \in TreeIds}

\* package b was pinned and then unpinned, both with success
C39_Witness ==
    \E p \in Procs :
      /\ Idle(p) /\ res[p].op = "pin" /\ res[p].ok /\ nops = 2
      /\ res[p].id = MkId("b", 1, TRUE, "any")
      /\ res[p].newid = MkId("b", 1, FALSE, "any")
      /\ res[p].id \in roots

(* -------------------- RemotePackageSource: Eq and Hash ------------------ *)
\* RemotePackageSource (remote_package_source/mod.rs 26-38) as <<variant,
\* payload>>: the four remote variants carry the URL of their manifest or
\* remote DB, RockspecContent carries the rockspec's text, Local nothing
Sources ==
    ({"LuarocksRockspec", "LuarocksSrcRock", "LuarocksBinaryRock",
      "LuanoxRockspec"} \X {"https://u1/", "https://u2/"})
    \cup ({"RockspecContent"} \X {"rockspec 1", "local"})
    \cup {<<"Local", "-">>}

\* RemotePackageSource::url: Some(url) for the remote variants, None for
\* RockspecContent and Local
SourceUrl(s) ==
    IF s[1] \in {"RockspecContent", "Local"} THEN <<"None">>
    ELSE <<"Some", s[2]>>

\* impl PartialEq: self.url() == other.url()
SourceEq(s, t) == SourceUrl(s) = SourceUrl(t)

\* impl Hash, as the data written to the hasher: the URL of a remote
\* variant, the content of RockspecContent, the text "local" of Local.
\* Two sources hash alike when the hasher is fed the same data.
SourceHash(s) == IF s[1] = "Local" THEN "local" ELSE s[2]

\* two sources, not yet compared
InitSources ==
    /\ lock = EmptyLock
    /\ roots = {}
    /\ files = {}
    /\ bins = {}
    /\ plock = [t \in LockTypes |-> EmptyLock]
    /\ db = [n \in Names |-> 1]
    /\ dflt = {}
    /\ flock = 0
    /\ pc = [p \in Procs |-> "idle"]
    /\ loc = [p \in Procs |-> NoLoc]
    /\ res = [p \in Procs |-> NoRes]
    /\ nops = 0
    /\ srcs = <<>>
    /\ found = NoFound
    /\ cfg = NoCfg
    /\ jobs = NoJobs
    /\ mf = NoMf
    /\ vend = NoVend
    /\ unp = NoUnp
    /\ rps \in {[NoRps EXCEPT !.a = s, !.b = t] : s \in Sources, t \in Sources}

\* the two sources are compared with == and are hashed, as a HashMap or
\* HashSet keyed by them does
CompareSources ==
    /\ ~rps.done
    /\ rps' = [rps EXCEPT !.eq = SourceEq(rps.a, rps.b),
                          !.same = (SourceHash(rps.a) = SourceHash(rps.b)),
                          !.done = TRUE]
    /\ UNCHANGED <<lock, roots, files, bins, plock, db, dflt, flock, pc, loc,
                   res, nops, srcs, found, cfg, jobs, mf, vend, unp>>

SpecSources == InitSources /\ [][CompareSources]_vars

\* C40: equality and hashing of RemotePackageSource agree: two sources that
\* compare equal have been hashed to the same value.
C40_EqImpliesSameHash == (rps.done /\ rps.eq) => rps.same

(* ------------------ the build directory of do_build -------------------- *)
\* file names: the strings of 1..MaxLen letters
FileNames == UNION {[1..n -> {"x", "y"}] : n \in 1..MaxLen}

\* str::starts_with
StartsWith(s, prefix) ==
    Len(prefix) <= Len(s) /\ SubSeq(s, 1, Len(prefix)) = prefix

\* do_build with the prefix test left out
BuildDirAnySingle(ents, archive_name, unpack_dir) ==
    LET dir_entries == {e \in ents : e.dir}
    IN IF unpack_dir[1] = "Some" THEN <<"temp_dir", unpack_dir[2]>>
       ELSE IF Cardinality(dir_entries) = 1
            THEN <<"temp_dir", (CHOOSE e \in dir_entries : TRUE).name>>
            ELSE <<"temp_dir">>

\* do_build, build/mod.rs 378-409: the build directory, as a path below the
\* temporary directory the source was unpacked into.  ents are the entries
\* of that directory, of which read_dir keeps the directories (383-386)
BuildDir(ents, archive_name, unpack_dir) ==
    LET dir_entries == {e \in ents : e.dir}
    IN IF unpack_dir[1] = "Some" THEN <<"temp_dir", unpack_dir[2]>>
       ELSE IF /\ Cardinality(dir_entries) = 1
               /\ archive_name[1] = "Some"
               /\ \A e \in dir_entries : StartsWith(archive_name[2], e.name)
            THEN <<"temp_dir", (CHOOSE e \in dir_entries : TRUE).name>>
            ELSE <<"temp_dir">>

\* a source has been unpacked: the temporary directory holds up to MaxEntries
\* entries, files or directories; the rockspec names a source.dir or not;
\* the archive name (rock_source.archive_name, else the one of the source
\* metadata, 387-390) is known or not
InitUnpack ==
    /\ lock = EmptyLock
    /\ roots = {}
    /\ files = {}
    /\ bins = {}
    /\ plock = [t \in LockTypes |-> EmptyLock]
    /\ db = [n \in Names |-> 1]
    /\ dflt = {}
    /\ flock = 0
    /\ pc = [p \in Procs |-> "idle"]
    /\ loc = [p \in Procs |-> NoLoc]
    /\ res = [p \in Procs |-> NoRes]
    /\ nops = 0
    /\ srcs = <<>>
    /\ found = NoFound
    /\ cfg = NoCfg
    /\ jobs = NoJobs
    /\ mf = NoMf
    /\ vend = NoVend
    /\ rps = NoRps
    /\ unp \in {[NoUnp EXCEPT !.ents = es, !.archive = a, !.unpack_dir = u] :
                  es \in {x \in UNION {{{f[i] : i \in 1..k} :
                                         f \in [1..k -> [name : FileNames,
                                                         dir : BOOLEAN]]} :
                                       k \in 0..MaxEntries} :
                            \A e, f \in x : e.name = f.name => e = f},
                  a \in {<<"None">>} \cup ({"Some"} \X FileNames),
                  u \in {<<"None">>, <<"Some", <<"x">>>>}}

\* do_build chooses the directory it patches and builds in
ChooseBuildDir ==
    /\ ~unp.done
    /\ unp' = [unp EXCEPT !.out = BuildDir(unp.ents, unp.archive,
                                           unp.unpack_dir),
                          !.done = TRUE]
    /\ UNCHANGED <<lock, roots, files, bins, plock, db, dflt, flock, pc, loc,
                   res, nops, srcs, found, cfg, jobs, mf, vend, rps>>

SpecUnpack == InitUnpack /\ [][ChooseBuildDir]_vars

\* C32: when the rockspec names no source directory, the build directory is
\* a subdirectory of the unpack root only if the root has exactly one
\* subdirectory and the name of that subdirectory is a prefix of the archive
\* name, and it is then that subdirectory; in every other case the build
\* directory is the unpack root itself.
C32_BuildDirRule ==
    (unp.done /\ unp.unpack_dir = <<"None">>) =>
        LET subdirs == {e.name : e \in {f \in unp.ents : f.dir}}
            fits == {d \in subdirs :
                       /\ subdirs = {d}
                       /\ unp.archive[1] = "Some"
                       /\ \E rest \in FileNames \cup {<<>>} :
                            d \o rest = unp.archive[2]}
        IN /\ fits # {} => \E d \in fits : unp.out = <<"temp_dir", d>>
           /\ fits = {} => unp.out = <<"temp_dir">>

\* a single subdirectory named by a proper prefix of the archive name has
\* been chosen, next to a plain file in the unpack root
C32_Witness ==
    /\ unp.done /\ unp.unpack_dir = <<"None">>
    /\ Len(unp.out) = 2
    /\ Len(unp.archive[2]) > Len(unp.out[2])
    /\ \E e \in unp.ents : ~e.dir

(* --------------------------- vendoring --------------------------------- *)
\* the entries vendoring writes below the vendor directory for a package:
\* "<name>-<version>.rockspec", the source directory "<name>@<version>" and
\* the binary rock "<name>@<version>.rock"
VendorEntry(kind, pk) == <<kind, pk.name, pk.version>>

\* do_vendor_dependencies, vendor.rs 99-140, up to the call of
\* vendor_sources: the dependencies of every lock type have been resolved,
\* each to a rockspec alone, a source rock or a binary rock
\* (RemoteRockDownload), and the vendor directory has been deleted
InitVendor ==
    /\ lock = EmptyLock
    /\ roots = {}
    /\ files = {}
    /\ bins = {}
    /\ plock = [t \in LockTypes |-> EmptyLock]
    /\ db = [n \in Names |-> 1]
    /\ dflt = {}
    /\ flock = 0
    /\ pc = [p \in Procs |-> "idle"]
    /\ loc = [p \in Procs |-> NoLoc]
    /\ res = [p \in Procs |-> NoRes]
    /\ nops = 0
    /\ srcs = <<>>
    /\ found = NoFound
    /\ cfg = NoCfg
    /\ jobs = NoJobs
    /\ mf = NoMf
    /\ unp = NoUnp
    /\ rps = NoRps
    /\ vend \in {[NoVend EXCEPT !.pkgs = ps] :
                   ps \in {x \in SUBSET [name : Names, version : Versions,
                                         kind : {"RockspecOnly", "SrcRock",
                                                 "BinaryRock"}] :
                             /\ x # {}
                             /\ \A a, b \in x : a.name = b.name => a = b}}

VendFrame ==
    UNCHANGED <<lock, roots, files, bins, plock, db, dflt, flock, pc, loc,
                res, nops, srcs, found, cfg, jobs, mf, unp, rps>>

\* the task of a package is still to run
VendTodo(pk) == vend.ret = "-" /\ pk \in vend.pkgs \ (vend.ok \cup vend.err)

\* vendor_rockspec_sources, vendor.rs 275-336: creates the source directory
\* (298-302), writes the rockspec file (308-315), then unpacks the source
\* rock or fetches the sources into the directory (317-331); each of the
\* three steps can fail, which ends the task with what was written so far
VendorRockspecSources(pk) ==
    /\ VendTodo(pk) /\ pk.kind \in {"RockspecOnly", "SrcRock"}
    /\ \E step \in 0..3 :
         vend' = [vend EXCEPT
                    !.dir = @ \cup (IF step >= 1
                                    THEN {VendorEntry("srcdir", pk)} ELSE {})
                              \cup (IF step >= 2
                                    THEN {VendorEntry("rockspec", pk)} ELSE {}),
                    !.ok = IF step = 3 THEN @ \cup {pk} ELSE @,
                    !.err = IF step < 3 THEN @ \cup {pk} ELSE @]
    /\ VendFrame

\* vendor_binary_rock, vendor.rs 338-374: creates the vendor directory and
\* writes "<name>@<version>.rock" into it (363-369), and nothing else; the
\* creation of the file can fail, and the write after it
VendorBinaryRock(pk) ==
    /\ VendTodo(pk) /\ pk.kind = "BinaryRock"
    /\ \E step \in 0..2 :
         vend' = [vend EXCEPT
                    !.dir = @ \cup (IF step >= 1
                                    THEN {VendorEntry("rock", pk)} ELSE {}),
                    !.ok = IF step = 2 THEN @ \cup {pk} ELSE @,
                    !.err = IF step < 2 THEN @ \cup {pk} ELSE @]
    /\ VendFrame

\* vendor_sources, vendor.rs 267-272: every task has ended; the result is
\* the first error of a task, and Ok when there is none
VendorSourcesDone ==
    /\ vend.ret = "-"
    /\ vend.ok \cup vend.err = vend.pkgs
    /\ vend' = [vend EXCEPT !.ret = IF vend.err = {} THEN "ok" ELSE "err"]
    /\ VendFrame

NextVendor ==
    \/ \E pk \in vend.pkgs : VendorRockspecSources(pk)
    \/ \E pk \in vend.pkgs : VendorBinaryRock(pk)
    \/ VendorSourcesDone

SpecVendor == InitVendor /\ [][NextVendor]_vars

\* C31: after vendoring has succeeded, for every resolved dependency the
\* vendor directory holds its rockspec file together with its source
\* directory or its binary rock, which is what loading a vendored package
\* back (fetch_vendored.rs 69-153) needs.
C31_VendoredCanBeLoaded ==
    vend.ret = "ok" =>
        \A pk \in vend.pkgs :
            /\ VendorEntry("rockspec", pk) \in vend.dir
            /\ \/ VendorEntry("srcdir", pk) \in vend.dir
               \/ VendorEntry("rock", pk) \in vend.dir

(* ------------------ lx install-rockspec with dependencies -------------- *)
\* install_rockspec, lux-cli install_rockspec.rs 29-112: the rockspec of
\* package n names dependencies and build dependencies (none of them one of
\* the two build backends lux implements itself, 62-68).  The build
\* dependencies that tree.match_rocks finds in the user tree (69-72) are
\* installed into the build tree (83-88), whose packages are kept by name
\* in loc.btree; an error of that Install is returned.  Then the
\* dependencies the user tree does not hold are installed into it as
\* dependencies, NoForce (93-112).
InstallRockspec(p) ==
    /\ Idle(p) /\ nops < MaxOps
    /\ \E n \in Names, pin \in BOOLEAN, btree \in SUBSET Names,
          installs \in BOOLEAN :
         \E dependencies, build_dependencies \in
                SUBSET {[name |-> m, ver |-> 0] : m \in Names \ {n}} :
           LET build_dependencies_to_install ==
                   {d \in build_dependencies : MatchRocksFound(lock, d)}
               dependencies_to_install ==
                   {MkSpec(d, FALSE, pin, FALSE, ConstraintOf(d)) :
                      d \in {e \in dependencies : ~MatchRocksFound(lock, e)}}
               l == [NoLoc EXCEPT !.op = "rockspec", !.usedb = "remote",
                       !.newid = MkId(n, db[n], pin, "any"),
                       !.reqs = dependencies, !.bdeps = build_dependencies]
           IN IF build_dependencies_to_install # {} /\ ~installs
              THEN Begin(p, "op_done",
                         [l EXCEPT !.failed = TRUE, !.btree = btree])
              ELSE Begin(p, "inst_begin",
                         [l EXCEPT !.ret = "rs_build",
                            !.queue = dependencies_to_install,
                            !.btree = btree \cup
                               {d.name : d \in build_dependencies_to_install}])
    /\ UNCHANGED <<lock, roots, files, bins, plock, db, dflt, flock>>
    /\ UNCHANGED findvars

\* install_rockspec, 107-131: an error of the Install of the dependencies
\* is returned; otherwise the rockspec's own package is built into the user
\* tree as an entrypoint with Force
InstallRockspecBuild(p) ==
    /\ pc[p] = "rs_build"
    /\ LET l == loc[p] IN
       IF l.failed
       THEN /\ Goto(p, "op_done")
            /\ UNCHANGED loc
       ELSE /\ SetLoc(p, [l EXCEPT
                            !.cur = MkSpec([name |-> l.newid.name,
                                            ver |-> l.newid.version],
                                           TRUE, l.newid.pinned, TRUE, "any"),
                            !.id = l.newid, !.record = FALSE,
                            !.ret = "op_done"])
            /\ Goto(p, "build_fetch")
    /\ UNCHANGED <<lock, roots, files, bins, plock, db, dflt, flock, res, nops>>
    /\ UNCHANGED findvars

NextRockspec ==
    \/ InstallRockspec(1) \/ InstBegin(1) \/ InstNext(1) \/ BuildFetch(1)
    \/ BuildLayout(1) \/ BackendRustMlua(1) \/ BackendNone(1)
    \/ BuildInstall(1) \/ BuildFailed(1) \/ InstRecord(1)
    \/ InstallRockspecBuild(1) \/ BuildDone(1) \/ OpDone(1)

SpecRockspec == Init /\ [][NextRockspec]_vars

\* the build of the rockspec's own package is starting
RockspecBuildStarts(p) ==
    loc[p].op = "rockspec" /\ pc[p] = "build_fetch" /\ ~loc[p].record

\* C33: when a rockspec is installed, every build dependency (the two
\* built-in backends aside) and every dependency missing from the tree has
\* been installed before the build of the rockspec's own package starts:
\* at that moment each build dependency is in the build tree or in the user
\* tree, and each dependency is in the user tree.
C33_DependenciesBeforeBuild ==
    \A p \in Procs :
        RockspecBuildStarts(p) =>
            /\ \A d \in loc[p].bdeps :
                   d.name \in loc[p].btree \/ MatchRocksFound(lock, d)
            /\ \A d \in loc[p].reqs : MatchRocksFound(lock, d)
====
